---- MODULE Spec2Model ----
(***************************************************************************)
(* A model of the ledit test harness (test_runner.py, and its older copy   *)
(* test.py): the parallel launch of the discovered tests, the polling      *)
(* monitoring loop with its per-test timeout, the diagnosis function       *)
(* extract_failure_reason, and the final report and exit code.             *)
(*                                                                         *)
(* Text (test names, captured output, failure reasons) is a sequence of    *)
(* one-character strings, so that lower(), strip(), split() and the        *)
(* substring test work on characters as Python's do.                       *)
(***************************************************************************)
EXTENDS Integers, Sequences, FiniteSets, TLC

(***************************************************************************)
(* Bounds of the model.                                                    *)
(***************************************************************************)
\* The largest number of test scripts discovery returns.
MaxTests == 2
\* The longest time (seconds) the launch of one child takes.
MaxLaunchDelay == 1
\* The largest number of chunks a child writes to its two streams together
\* (diagnosis specification).
MaxWrites == 3
\* The most *.sh files in the test directory of a sequential runner.
MaxScripts == 2

(***************************************************************************)
(* Program constants.                                                      *)
(***************************************************************************)
\* test_runner.py:404  timeout = 210
timeout == 210
\* test_runner.py:498  time.sleep(10)
SleepSeconds == 10
\* test_runner.py:58   [:1000]
ReasonLimit == 1000

(***************************************************************************)
(* Python's str operations, on sequences of characters.                    *)
(***************************************************************************)
UpperChars == <<"A","B","C","D","E","F","G","H","I","J","K","L","M","N","O","P","Q","R","S","T","U","V","W","X","Y","Z">>
LowerChars == <<"a","b","c","d","e","f","g","h","i","j","k","l","m","n","o","p","q","r","s","t","u","v","w","x","y","z">>
DigitChars == <<"0","1","2","3","4","5","6","7","8","9">>
Whitespace == {" ", "\t", "\n", "\r"}

\* One character of str.lower().
LowerChar(c) ==
    IF \E i \in 1..Len(UpperChars) : UpperChars[i] = c
    THEN LowerChars[CHOOSE i \in 1..Len(UpperChars) : UpperChars[i] = c]
    ELSE c

\* s.lower()
Lower(s) == [i \in 1..Len(s) |-> LowerChar(s[i])]

\* The operators below bind their text argument once (t \in {s}), so that a
\* nested call is evaluated once and not at every use of the argument.

\* s.strip(): s without its leading and trailing whitespace.
Strip(s) ==
    CHOOSE r \in
        { LET keep == {i \in 1..Len(t) : t[i] \notin Whitespace}
          IN  IF keep = {} THEN <<>>
              ELSE LET lo == CHOOSE i \in keep :
                                 \A j \in 1..(i - 1) : t[j] \in Whitespace
                       hi == CHOOSE i \in keep :
                                 \A j \in (i + 1)..Len(t) : t[j] \in Whitespace
                   IN  SubSeq(t, lo, hi)
          : t \in {s} } : TRUE

\* A slip: the slice is forgotten.
PrefixUnbounded(s, n) == s

\* s[:n]
Prefix(s, n) ==
    CHOOSE r \in {IF Len(t) <= n THEN t ELSE SubSeq(t, 1, n) : t \in {s}} : TRUE

\* Whether sep occurs in s at position i.
OccursAt(s, sep, i) ==
    /\ i >= 1
    /\ i + Len(sep) - 1 <= Len(s)
    /\ SubSeq(s, i, i + Len(sep) - 1) = sep

\* sep in s
Contains(s, sep) == \E t \in {s} : \E i \in 1..Len(t) : OccursAt(t, sep, i)

\* s.split(sep)[-1]: split scans s from the left for occurrences of sep
\* that do not overlap; the last piece is what follows the last one found
\* (the whole of s when there is none).
RECURSIVE SplitLast(_, _)
SplitLast(s, sep) ==
    CHOOSE r \in
        { IF ~Contains(t, sep) THEN t
          ELSE LET i == CHOOSE k \in 1..Len(t) :
                          /\ OccursAt(t, sep, k)
                          /\ \A j \in 1..(k - 1) : ~OccursAt(t, sep, j)
               IN  SplitLast(SubSeq(t, i + Len(sep), Len(t)), sep)
          : t \in {s} } : TRUE

\* str(n) of a natural number n.
RECURSIVE Decimal(_)
Decimal(n) ==
    IF n < 10 THEN <<DigitChars[n + 1]>>
    ELSE Decimal(n \div 10) \o <<DigitChars[(n % 10) + 1]>>

(***************************************************************************)
(* Diagnosis: extract_failure_reason.                                      *)
(***************************************************************************)
ErrorMarker == <<"e","r","r","o","r",":">>
FailedMarker == <<"f","a","i","l","e","d",":">>
AssertionMarker == <<"a","s","s","e","r","t","i","o","n"," ","f","a","i","l","e","d">>
UnknownReason == <<"U","n","k","n","o","w","n"," ","f","a","i","l","u","r","e"," ","r","e","a","s","o","n">>

\* A slip: the "failed:" rule of stdout is tried before the "error:" rule
\* of stderr.
extract_failure_reason_failed_first(stdout, stderr) ==
    IF Contains(Lower(stdout), FailedMarker)
    THEN Prefix(Strip(SplitLast(stdout, FailedMarker)), ReasonLimit)
    ELSE IF Contains(Lower(stderr), ErrorMarker)
    THEN Prefix(Strip(SplitLast(stderr, ErrorMarker)), ReasonLimit)
    ELSE IF Contains(Lower(stderr), AssertionMarker)
    THEN Prefix(Strip(SplitLast(stderr, AssertionMarker)), ReasonLimit)
    ELSE IF Strip(stderr) # <<>>
    THEN Prefix(Strip(stderr), ReasonLimit)
    ELSE IF Strip(stdout) # <<>>
    THEN Prefix(Strip(stdout), ReasonLimit)
    ELSE UnknownReason

\* def extract_failure_reason(stdout, stderr)
extract_failure_reason(stdout, stderr) ==
    IF Contains(Lower(stderr), ErrorMarker)
    THEN Prefix(Strip(SplitLast(stderr, ErrorMarker)), ReasonLimit)
    ELSE IF Contains(Lower(stdout), FailedMarker)
    THEN Prefix(Strip(SplitLast(stdout, FailedMarker)), ReasonLimit)
    ELSE IF Contains(Lower(stderr), AssertionMarker)
    THEN Prefix(Strip(SplitLast(stderr, AssertionMarker)), ReasonLimit)
    ELSE IF Strip(stderr) # <<>>
    THEN Prefix(Strip(stderr), ReasonLimit)
    ELSE IF Strip(stdout) # <<>>
    THEN Prefix(Strip(stdout), ReasonLimit)
    ELSE UnknownReason

(***************************************************************************)
(* State.                                                                  *)
(***************************************************************************)
VARIABLES
    \* main() of test_runner.py
    tests,            \* the catalog: the discovered test names, in discovery order
    pc,               \* where main() is: launch, while, poll, finalize, sleep, summary, done
    clock,            \* time.time(), in seconds since the first launch began
    launched,         \* how many tests the launch loop has started
    processes,        \* the live set: the dict pid -> info, in insertion order
    proc,             \* the child processes, by pid: alive (poll() is None) and returncode
    files,            \* the capture files that exist under testing/: path -> content
    failure_logs,     \* the test_failure_<name>.log files: workspace -> what was logged
    results,          \* the dict test name -> status
    failure_reasons,  \* the dict test name -> reason
    poll_queue,       \* what is left of list(processes.items()) in the polling for-loop
    pids_to_remove,   \* the pids this iteration found finished or timed out
    classified,       \* by pid: the status the monitoring loop gave that run (RUNNING before)
    report,           \* the lines of the final results table
    all_passed,       \* main()'s all_passed
    exit_code,        \* the exit code of the harness (NotExited while it runs)
    args,             \* the command line: single, test_number, list_tests,
                      \* keep_testing_dir
    stdin,            \* what input() finds: nothing (end of input) or one line
    selected_tests_for_execution,  \* the names of the tests to run, in order
    listing,          \* the lines list mode has printed
    workspaces,       \* the per-test workspace directories that exist
    handles,          \* the pids whose stdout_file and stderr_file are open
    mkdir_error,      \* the launch numbers whose workspace mkdir raises OSError
    scripts,          \* the test_*.sh files, as glob finds them and sorted from
                      \* discovery on: the file name, what get_test_name does in it
    build,            \* what go build and cp ledit testing/ do: ok, failed, go missing
    testing_dir,      \* whether the directory testing/ exists
    \* main() of integration_test_runner.py and of e2e_test_runner.py
    runner,           \* which of the two runners runs: integration, e2e (off otherwise)
    rargs,            \* its command line: test, list, yes
    rtests,           \* tests: the sorted *.sh files, by their place 1..len(tests)
    renv,             \* its surroundings: what go build does, ledit is built, the
                      \* answer typed
    rpc,              \* where it is: start, all, single, exited
    ran,              \* the test scripts run so far, with their outcome
    rprinted,         \* the discovered tests it has named before any build
    rexit,            \* its exit code (NotExited while it runs)
    \* extract_failure_reason on its own
    cap_stdout,       \* the captured stdout handed to extract_failure_reason
    cap_stderr,       \* the captured stderr handed to extract_failure_reason
    reason,           \* what extract_failure_reason returned
    writes,           \* how many chunks the child has written
    dpc,              \* write, done (off in the harness specification)
    \* the model argument of the test children of test_runner.py, on its own
    cli_model,        \* args.model: the -m value, empty when it was not given
    config,           \* .ledit/config.json of the project and of the home directory:
                      \* None when there is no readable dict, else its model keys
    model_name,       \* main()'s model_name (None before it is resolved)
    mtests,           \* the names of the selected tests
    child_argv,       \* by launch: the arguments bash hands to run_test_logic (None
                      \* when bash rejects the command line)
    mpc,              \* resolve, launch, done (off otherwise)
    \* examples/iterative_sdlc.py: SDLCManager.run_workflow, on its own
    phases,           \* self.phases: name, evaluation_type, plan_file, completed
    max_iterations,   \* self.max_iterations
    max_global_iterations,  \* self.max_global_iterations
    critical_phases,  \* config['critical_phases']
    global_iteration, \* self.global_iteration
    workflow_results, \* self.results
    phases_to_revisit,  \* run_workflow's phases_to_revisit (deduplicated)
    phase_index,      \* the place of the for loop in self.phases
    iteration,        \* run_phase's iteration
    should_revisit,   \* run_phase's should_revisit
    evals,            \* the evaluations of the current run_phase call, in order
    wpc,              \* while, for, run_phase, after_for, returned, raised (off
                      \* otherwise)
    \* examples/typescript-conversion/convert_to_ts.py: main, on its own
    files_to_process, \* the files that still need to be processed
    current_batch,    \* the batch taken from files_to_process
    pending,          \* the files of the batch whose future has not completed
    successful_conversions,
    failed_conversions,
    batch_num,
    batch_successful_count,
    fix_attempt_count,
    build_successful,
    tsc_runs,         \* how often tsc ran in the build/fix loop of this batch
    cpc,              \* start, while, collect, build, check, done (off otherwise)
    \* examples/typescript-conversion/validate_ts_conversion.py:
    \* process_single_file from its ledit loop on, on its own
    attempt,          \* the loop variable of for attempt in range(...)
    ledit_calls,      \* how often ledit was run for the file
    ledit_returncode, \* ledit_result.returncode of the last run
    ledit_stdout,     \* ledit_result.stdout of the last run, as its lines
    ledit_error,      \* ledit_result.stderr.strip() of the last run
    status_from_ledit,
    reason_from_ledit,
    recommendation_from_ledit,
    found_status,
    found_reason,
    found_recommendation,
    written_reports,  \* what was written to report_filepath, by write
    vpc               \* loop, write, returned (off otherwise)

hvars == <<tests, pc, clock, launched, processes, proc, files, failure_logs, results,
           failure_reasons, poll_queue, pids_to_remove, classified, report, all_passed,
           exit_code>>
dvars == <<cap_stdout, cap_stderr, reason, writes, dpc>>
svars == <<args, stdin, selected_tests_for_execution, listing, workspaces, handles,
           mkdir_error, scripts, build, testing_dir>>
rvars == <<runner, rargs, rtests, renv, rpc, ran, rprinted, rexit>>
mvars == <<cli_model, config, model_name, mtests, child_argv, mpc>>
wvars == <<phases, max_iterations, max_global_iterations, critical_phases,
           global_iteration, workflow_results, phases_to_revisit, phase_index,
           iteration, should_revisit, evals, wpc>>
cvars == <<files_to_process, current_batch, pending, successful_conversions,
           failed_conversions, batch_num, batch_successful_count,
           fix_attempt_count, build_successful, tsc_runs, cpc>>
vvars == <<attempt, ledit_calls, ledit_returncode, ledit_stdout, ledit_error,
           status_from_ledit, reason_from_ledit, recommendation_from_ledit,
           found_status, found_reason, found_recommendation, written_reports, vpc>>
evars == <<mvars, wvars, cvars, vvars>>
vars == <<hvars, dvars, svars, rvars, evars>>

(***************************************************************************)
(* Python dicts: functions whose domain is the set of keys present.        *)
(***************************************************************************)
EmptyDict == [k \in {} |-> {}]
Put(d, k, v) == [x \in (DOMAIN d) \cup {k} |-> IF x = k THEN v ELSE d[x]]
Get(d, k, default) == IF k \in DOMAIN d THEN d[k] ELSE default
Remove(d, k) == [x \in (DOMAIN d) \ {k} |-> d[x]]

\* The elements of a sequence, and a sequence without its entry i.
Range(s) == {s[i] : i \in 1..Len(s)}
Without(s, i) == SubSeq(s, 1, i - 1) \o SubSeq(s, i + 1, Len(s))

(***************************************************************************)
(* The inputs: test names, child exit codes, child output.                 *)
(***************************************************************************)
TestNames == {<<"t">>, <<"a"," ","b">>, <<"a","_","b">>}
Catalogs == UNION {[1..n -> TestNames] : n \in 1..MaxTests}
ExitCodes == {0, 1}
DiskFullError == <<"E","r","r","o","r",":"," ","d","i","s","k"," ","f","u","l","l">>
\* What a child that writes anything writes: <<stdout, stderr>>.
ChildOutputs == {<<<<"o","k">>, DiskFullError>>}

\* The exit code of the harness while it has not exited.
NotExited == -1

\* An optional value: None is the empty tuple, a value v is <<v>>.
None == <<>>
Some(v) == <<v>>

\* The command line of a run of all tests: no --single, no -t, no --list-tests,
\* no --keep-testing-dir.
ParallelArgs ==
    [single |-> FALSE, test_number |-> None, list_tests |-> FALSE,
     keep_testing_dir |-> FALSE]

\* The standard input at its end: input() raises EOFError.
EndOfInput == None

\* What running get_test_name of a script gives: whether the command
\* exited with code 0, and its stdout. Answer(name) is a script that prints
\* the name, QueryFails a script whose query exits non-zero.
Answer(name) == [ok |-> TRUE, stdout |-> name]
QueryFails == [ok |-> FALSE, stdout |-> <<>>]

\* The file name of the i-th script the model puts into the directory:
\* test_a, test_B, test_c, ... (the suffix .sh is the same in all).
TestFile(i) ==
    <<"t","e","s","t","_">> \o <<IF i % 2 = 1 THEN LowerChars[i] ELSE UpperChars[i]>>

\* A script of the directory: its file name, and what get_test_name does.
Script(file, query) == [file |-> file, ok |-> query.ok, stdout |-> query.stdout]

\* The code points of the characters of file names, in ascending order.
CodePoints == <<" ">> \o DigitChars \o <<":">> \o UpperChars \o <<"_">> \o LowerChars
ord(c) == CHOOSE i \in 1..Len(CodePoints) : CodePoints[i] = c

\* s < t on str: at the first place where they differ s has the smaller
\* code point, or s ends there.
LexLess(s, t) ==
    \E i \in 1..Len(t) :
        /\ i - 1 <= Len(s)
        /\ \A j \in 1..(i - 1) : s[j] = t[j]
        /\ (i = Len(s) + 1 \/ (i <= Len(s) /\ ord(s[i]) < ord(t[i])))

\* A slip: the scripts are taken in the order glob found them.
sorted_as_found(ss) == ss

\* sorted(testing_dir_path.glob("test_*.sh")): the files of one directory
\* have distinct names, so a script comes after those with a smaller name.
sorted(ss) ==
    [k \in 1..Len(ss) |->
        ss[CHOOSE i \in 1..Len(ss) :
              Cardinality({j \in 1..Len(ss) : LexLess(ss[j].file, ss[i].file)}) = k - 1]]

\* The scripts of the tests of a catalog, sorted by file name.
ScriptsOf(catalog) ==
    sorted([i \in 1..Len(catalog) |-> Script(TestFile(i), Answer(catalog[i]))])

(***************************************************************************)
(* Launch: the for-loop that starts every selected test.                   *)
(***************************************************************************)
\* test_name.replace(' ', '_')
sanitized_test_name(test_name) ==
    [i \in 1..Len(test_name) |-> IF test_name[i] = " " THEN "_" ELSE test_name[i]]

\* testing_dir / sanitized_test_name
current_test_workspace(test_name) == sanitized_test_name(test_name)
\* current_test_workspace / f"{sanitized_test_name}.stdout", and .stderr
stdout_file_path(test_name) == [dir |-> current_test_workspace(test_name), file |-> "stdout"]
stderr_file_path(test_name) == [dir |-> current_test_workspace(test_name), file |-> "stderr"]

\* A slip: a launched test gets no status of its own before it is polled.
InitialStatusPending == "PENDING"

\* results[test_name] = "RUNNING": the status of a test just launched.
InitialStatus == "RUNNING"

\* One turn of the launch loop: the workspace and the two capture files are
\* created (open(..., "w") empties a file that exists), the child is started,
\* its info is stored under its pid and its status set to RUNNING. The pid of
\* a child is its launch number: no child is reaped before the loop ends, so
\* the pids the system hands out are distinct.
Launch ==
    /\ pc = "launch"
    /\ launched < Len(selected_tests_for_execution)
    /\ launched + 1 \notin mkdir_error
    /\ \E d \in 0..MaxLaunchDelay :
         LET test_name == selected_tests_for_execution[launched + 1]
             pid == launched + 1
         IN  /\ clock' = clock + d
             /\ workspaces' = workspaces \cup {current_test_workspace(test_name)}
             /\ handles' = handles \cup {pid}
             /\ files' = Put(Put(files, stdout_file_path(test_name), <<>>),
                             stderr_file_path(test_name), <<>>)
             /\ proc' = Append(proc, [alive |-> TRUE, returncode |-> 0, overran |-> FALSE])
             /\ processes' = Append(processes,
                    [pid |-> pid, name |-> test_name,
                     sanitized_name |-> sanitized_test_name(test_name),
                     start_time |-> clock + d])
             /\ results' = Put(results, test_name, InitialStatus)
             /\ classified' = Append(classified, "RUNNING")
             /\ launched' = launched + 1
    /\ UNCHANGED <<tests, pc, failure_logs, failure_reasons, poll_queue, pids_to_remove,
                   report, all_passed, exit_code>>
    /\ UNCHANGED <<args, stdin, selected_tests_for_execution, listing, mkdir_error,
                   scripts, build, testing_dir>>
    /\ UNCHANGED <<dvars, rvars, evars>>

\* A slip: the launch loop ends after its first turn.
LaunchLoopOverAfterFirst == launched >= 1

\* The for-loop over selected_tests_for_execution has had all its turns.
LaunchLoopOver == launched = Len(selected_tests_for_execution)

\* The launch loop is over: on to the monitoring loop.
LaunchDone ==
    /\ pc = "launch"
    /\ LaunchLoopOver
    /\ pc' = "while"
    /\ UNCHANGED <<tests, clock, launched, processes, proc, files, failure_logs, results,
                   failure_reasons, poll_queue, pids_to_remove, classified, report,
                   all_passed, exit_code>>
    /\ UNCHANGED <<dvars, svars, rvars, evars>>

\* The entry of the live set with this pid: processes[pid].
InfoOf(pid) == processes[CHOOSE i \in 1..Len(processes) : processes[i].pid = pid]

(***************************************************************************)
(* The children: each runs on its own, beside the harness.                 *)
(***************************************************************************)
\* A running child writes its output to its capture files (once, while they
\* are still empty).
ChildWrite ==
    /\ \E p \in 1..Len(proc), o \in ChildOutputs :
         LET test_name == selected_tests_for_execution[p]
             out == stdout_file_path(test_name)
             err == stderr_file_path(test_name)
         IN  /\ proc[p].alive
             /\ out \in DOMAIN files /\ err \in DOMAIN files
             /\ files[out] = <<>> /\ files[err] = <<>>
             /\ files' = [files EXCEPT ![out] = o[1], ![err] = o[2]]
    /\ UNCHANGED <<tests, pc, clock, launched, processes, proc, failure_logs, results,
                   failure_reasons, poll_queue, pids_to_remove, classified, report,
                   all_passed, exit_code>>
    /\ UNCHANGED <<dvars, svars, rvars, evars>>

\* A running child exits with some exit code; overran records whether it had
\* by then run for longer than the timeout.
ChildExit ==
    /\ \E p \in 1..Len(proc), code \in ExitCodes :
         /\ proc[p].alive
         /\ proc' = [proc EXCEPT ![p] =
                        [alive |-> FALSE, returncode |-> code,
                         overran |-> clock - InfoOf(p).start_time > timeout]]
    /\ UNCHANGED <<tests, pc, clock, launched, processes, files, failure_logs, results,
                   failure_reasons, poll_queue, pids_to_remove, classified, report,
                   all_passed, exit_code>>
    /\ UNCHANGED <<dvars, svars, rvars, evars>>

(***************************************************************************)
(* The monitoring loop.                                                    *)
(***************************************************************************)
\* A slip: the message is formatted with the polling interval.
TimeoutMessageOfInterval ==
    <<"T","e","s","t"," ","t","i","m","e","d"," ","o","u","t"," ","a","f","t","e","r"," ">>
    \o Decimal(SleepSeconds) \o <<" ","s","e","c","o","n","d","s">>

\* f"Test timed out after {timeout} seconds"
TimeoutMessage ==
    <<"T","e","s","t"," ","t","i","m","e","d"," ","o","u","t"," ","a","f","t","e","r"," ">>
    \o Decimal(timeout) \o <<" ","s","e","c","o","n","d","s">>

\* "Reason not available", the failure log's default.
ReasonNotAvailable == <<"R","e","a","s","o","n"," ","n","o","t"," ","a","v","a","i","l","a","b","l","e">>

\* 'FAIL' in status, over the statuses the harness uses.
ContainsFAIL(status) == status \in {"FAIL", "FAIL (Timeout)"}

\* A slip: the timeout test is >= instead of >.
PollResultAtTimeout(alive, returncode, elapsed_time) ==
    IF alive
    THEN IF elapsed_time >= timeout THEN "FAIL (Timeout)" ELSE "RUNNING"
    ELSE IF returncode = 0 THEN "PASS" ELSE "FAIL"

\* What one poll makes of a child: it is classified by its exit code when it
\* has exited, timed out when it runs and its elapsed time is over the
\* timeout, and left RUNNING otherwise.
PollResult(alive, returncode, elapsed_time) ==
    IF alive
    THEN IF elapsed_time > timeout THEN "FAIL (Timeout)" ELSE "RUNNING"
    ELSE IF returncode = 0 THEN "PASS" ELSE "FAIL"

\* while processes: the loop ends when the live set is empty; otherwise an
\* iteration begins, over a copy of the live set.
While ==
    /\ pc = "while"
    /\ IF processes = <<>>
       THEN /\ pc' = "summary"
            /\ UNCHANGED <<poll_queue, pids_to_remove>>
       ELSE /\ pc' = "poll"
            /\ poll_queue' = [i \in 1..Len(processes) |-> processes[i].pid]
            /\ pids_to_remove' = <<>>
    /\ UNCHANGED <<tests, clock, launched, processes, proc, files, failure_logs, results,
                   failure_reasons, classified, report, all_passed, exit_code>>
    /\ UNCHANGED <<dvars, svars, rvars, evars>>

\* One turn of the polling for-loop, for the next pid of the copy.
Poll ==
    /\ pc = "poll"
    /\ poll_queue # <<>>
    /\ LET pid == Head(poll_queue)
           info == InfoOf(pid)
           elapsed_time == clock - info.start_time
           result == PollResult(proc[pid].alive, proc[pid].returncode, elapsed_time)
       IN  /\ IF result = "RUNNING"
              THEN UNCHANGED <<proc, results, failure_reasons, pids_to_remove, classified>>
              ELSE /\ proc' = IF result = "FAIL (Timeout)"
                              THEN [proc EXCEPT ![pid] =
                                        [alive |-> FALSE, returncode |-> -9,
                                         overran |-> elapsed_time > timeout]]
                              ELSE proc
                   /\ results' = Put(results, info.name, result)
                   /\ failure_reasons' = IF result = "FAIL (Timeout)"
                                         THEN Put(failure_reasons, info.name, TimeoutMessage)
                                         ELSE failure_reasons
                   /\ pids_to_remove' = Append(pids_to_remove, pid)
                   /\ classified' = [classified EXCEPT ![pid] = result]
           /\ poll_queue' = Tail(poll_queue)
           /\ pc' = IF Tail(poll_queue) # <<>> THEN "poll" ELSE "finalize"
    /\ UNCHANGED <<tests, clock, launched, processes, files, failure_logs, report,
                   all_passed, exit_code>>
    /\ UNCHANGED <<dvars, svars, rvars, evars>>

\* A slip: the finished run is left in the live set.
DelProcessForgotten(pid) == processes

\* The live set after del processes[pid].
DelProcess(pid) ==
    Without(processes, CHOOSE i \in 1..Len(processes) : processes[i].pid = pid)

\* A slip: the output is read back and diagnosed for every finished run.
ReadsOutputAlways(status) == TRUE

\* if results[info['name']] != 'PASS': the output is read back.
ReadsOutput(status) == status # "PASS"

\* if results[info['name']] != 'FAIL (Timeout)': the reason is extracted.
Diagnoses(status) == status # "FAIL (Timeout)"

\* A slip: when one of the capture files is missing nothing is kept of the
\* other.
ReadCaptureFilesBothOrNone(out, err) ==
    IF out \in DOMAIN files /\ err \in DOMAIN files
    THEN <<files[out], files[err]>>
    ELSE <<<<>>, <<>>>>

\* stdout and stderr as the finalization reads them back: both start empty,
\* the stdout file is read first, and the FileNotFoundError of a missing
\* file ends the reading with what was read until then.
ReadCaptureFiles(out, err) ==
    <<IF out \in DOMAIN files THEN files[out] ELSE <<>>,
      IF out \in DOMAIN files /\ err \in DOMAIN files THEN files[err] ELSE <<>>>>

\* A slip: the capture files are removed only for a run that passed.
RemovesCaptureFilesOnPass(status) == status = "PASS"

\* Whether the finalization removes the two capture files: for every run,
\* the os.remove calls come after the block for runs that are not PASS.
RemovesCaptureFiles(status) == TRUE

\* One turn of the loop over pids_to_remove: the handles are closed; for a
\* run that is not PASS the capture files are read back (a missing file
\* leaves what was not read empty), the reason is extracted unless the run
\* timed out, and the failure log is written; the capture files are removed
\* (a missing file ends the removal); the run leaves the live set.
Finalize ==
    /\ pc = "finalize"
    /\ pids_to_remove # <<>>
    /\ \E info \in {InfoOf(Head(pids_to_remove))} :
       \E status \in {results[info.name]} :
       \E out \in {stdout_file_path(info.name)}, err \in {stderr_file_path(info.name)} :
       \E stdout \in {ReadCaptureFiles(out, err)[1]} :
       \E stderr \in {ReadCaptureFiles(out, err)[2]} :
       \E reasons \in {IF ReadsOutput(status) /\ Diagnoses(status)
                       THEN Put(failure_reasons, info.name,
                                extract_failure_reason(stdout, stderr))
                       ELSE failure_reasons} :
           /\ failure_reasons' = reasons
           /\ failure_logs' =
                 IF ReadsOutput(status)
                 THEN Put(failure_logs, info.sanitized_name,
                          [result |-> status,
                           reason |-> Get(reasons, info.name, ReasonNotAvailable),
                           stdout |-> stdout, stderr |-> stderr])
                 ELSE failure_logs
           /\ files' = IF RemovesCaptureFiles(status) /\ out \in DOMAIN files
                       THEN Remove(Remove(files, out), err)
                       ELSE files
           /\ processes' = DelProcess(info.pid)
           /\ handles' = handles \ {info.pid}
           /\ pids_to_remove' = Tail(pids_to_remove)
           /\ pc' = IF Tail(pids_to_remove) # <<>> THEN "finalize" ELSE "sleep"
    /\ UNCHANGED <<tests, clock, launched, proc, results, poll_queue, classified, report,
                   all_passed, exit_code>>
    /\ UNCHANGED <<args, stdin, selected_tests_for_execution, listing, workspaces,
                   mkdir_error, scripts, build, testing_dir>>
    /\ UNCHANGED <<dvars, rvars, evars>>

\* No run finished in this iteration: nothing to finalize.
FinalizeNone ==
    /\ pc = "finalize"
    /\ pids_to_remove = <<>>
    /\ pc' = "sleep"
    /\ UNCHANGED <<tests, clock, launched, processes, proc, files, failure_logs, results,
                   failure_reasons, poll_queue, pids_to_remove, classified, report,
                   all_passed, exit_code>>
    /\ UNCHANGED <<dvars, svars, rvars, evars>>

\* A slip: the harness sleeps at the end of every iteration.
ShouldSleepAlways == TRUE

\* Whether the iteration ends with time.sleep(10): if processes.
ShouldSleep == processes # <<>>

\* The end of an iteration: the harness sleeps if runs are still live.
Sleep ==
    /\ pc = "sleep"
    /\ ShouldSleep
    /\ clock' = clock + SleepSeconds
    /\ pc' = "while"
    /\ UNCHANGED <<tests, launched, processes, proc, files, failure_logs, results,
                   failure_reasons, poll_queue, pids_to_remove, classified, report,
                   all_passed, exit_code>>
    /\ UNCHANGED <<dvars, svars, rvars, evars>>

\* The end of an iteration with an empty live set: no sleep.
NoSleep ==
    /\ pc = "sleep"
    /\ ~ShouldSleep
    /\ pc' = "while"
    /\ UNCHANGED <<tests, clock, launched, processes, proc, files, failure_logs, results,
                   failure_reasons, poll_queue, pids_to_remove, classified, report,
                   all_passed, exit_code>>
    /\ UNCHANGED <<dvars, svars, rvars, evars>>

(***************************************************************************)
(* Reporting and the exit code.                                            *)
(***************************************************************************)
\* all_passed: no status in results contains 'FAIL'.
\* A slip: a test of the catalog that did not run counts as not passed.
AllPassedOverCatalog(res) ==
    \A i \in 1..Len(tests) : Get(res, tests[i], "NOT RUN") = "PASS"

AllPassed(res) == \A name \in DOMAIN res : ~ContainsFAIL(res[name])

\* The results table: one line per discovered test, in discovery order,
\* with results.get(name, "NOT RUN").
ReportLines(res) ==
    [i \in 1..Len(tests) |-> [name |-> tests[i], result |-> Get(res, tests[i], "NOT RUN")]]

\* sys.exit(1) if not all_passed; otherwise main() returns (exit code 0).
ExitCode(passed) == IF passed THEN 0 ELSE 1

\* keep_testing_dir at the cleanup: the flag of the command line, set to
\* True when not all_passed.
keep_testing_dir(passed) == args.keep_testing_dir \/ ~passed

\* After the loop: all_passed, the cleanup of the testing directory
\* (shutil.rmtree unless it is kept), the results table, the exit.
Summary ==
    /\ pc = "summary"
    /\ all_passed' = AllPassed(results)
    /\ testing_dir' = IF keep_testing_dir(AllPassed(results)) THEN testing_dir ELSE FALSE
    /\ report' = ReportLines(results)
    /\ exit_code' = ExitCode(AllPassed(results))
    /\ pc' = "done"
    /\ UNCHANGED <<tests, clock, launched, processes, proc, files, failure_logs, results,
                   failure_reasons, poll_queue, pids_to_remove, classified>>
    /\ UNCHANGED <<args, stdin, selected_tests_for_execution, listing, workspaces,
                   handles, mkdir_error, scripts, build>>
    /\ UNCHANGED <<dvars, rvars, evars>>

(***************************************************************************)
(* The specification of the harness.                                       *)
(***************************************************************************)
DiagnosisOff ==
    /\ cap_stdout = <<>>
    /\ cap_stderr = <<>>
    /\ reason = <<>>
    /\ writes = 0
    /\ dpc = "off"

\* The two sequential runners are not running.
RunnerOff ==
    /\ runner = "off"
    /\ rargs = [test |-> None, list |-> FALSE, yes |-> FALSE]
    /\ rtests = <<>>
    /\ renv = [build |-> "ok", ledit_exists |-> TRUE, response |-> "n"]
    /\ rpc = "off"
    /\ ran = <<>>
    /\ rprinted = <<>>
    /\ rexit = NotExited

\* The model argument is not looked at.
ModelOff ==
    /\ cli_model = <<>>
    /\ config = <<>>
    /\ model_name = None
    /\ mtests = <<>>
    /\ child_argv = <<>>
    /\ mpc = "off"

\* No SDLC workflow.
WorkflowOff ==
    /\ phases = <<>>
    /\ max_iterations = 0
    /\ max_global_iterations = 0
    /\ critical_phases = {}
    /\ global_iteration = 0
    /\ workflow_results = <<>>
    /\ phases_to_revisit = {}
    /\ phase_index = 0
    /\ iteration = 0
    /\ should_revisit = <<>>
    /\ evals = <<>>
    /\ wpc = "off"

\* No conversion to TypeScript.
ConvertOff ==
    /\ files_to_process = <<>>
    /\ current_batch = <<>>
    /\ pending = {}
    /\ successful_conversions = <<>>
    /\ failed_conversions = <<>>
    /\ batch_num = 0
    /\ batch_successful_count = 0
    /\ fix_attempt_count = 0
    /\ build_successful = FALSE
    /\ tsc_runs = 0
    /\ cpc = "off"

\* No validation of a converted file.
ValidateOff ==
    /\ attempt = 0
    /\ ledit_calls = 0
    /\ ledit_returncode = 0
    /\ ledit_stdout = <<>>
    /\ ledit_error = <<>>
    /\ status_from_ledit = <<>>
    /\ reason_from_ledit = <<>>
    /\ recommendation_from_ledit = <<>>
    /\ found_status = FALSE
    /\ found_reason = FALSE
    /\ found_recommendation = FALSE
    /\ written_reports = <<>>
    /\ vpc = "off"

\* The programs modelled on their own are not running.
ExamplesOff ==
    /\ ModelOff
    /\ WorkflowOff
    /\ ConvertOff
    /\ ValidateOff

\* What main() has before it selects and launches tests.
Started ==
    /\ clock = 0
    /\ launched = 0
    /\ processes = <<>>
    /\ proc = <<>>
    /\ files = EmptyDict
    /\ failure_logs = EmptyDict
    /\ results = EmptyDict
    /\ failure_reasons = EmptyDict
    /\ poll_queue = <<>>
    /\ pids_to_remove = <<>>
    /\ classified = <<>>
    /\ report = <<>>
    /\ all_passed = TRUE
    /\ exit_code = NotExited
    /\ listing = <<>>
    /\ workspaces = {}
    /\ handles = {}
    /\ testing_dir = TRUE
    /\ DiagnosisOff
    /\ RunnerOff
    /\ ExamplesOff

\* A run of all discovered tests, at the start of the launch loop; every
\* workspace can be created.
Init ==
    /\ Started
    /\ tests \in Catalogs
    /\ pc = "launch"
    /\ args = ParallelArgs
    /\ stdin = EndOfInput
    /\ selected_tests_for_execution = tests
    /\ mkdir_error = {}
    /\ scripts = ScriptsOf(tests)
    /\ build = "ok"

\* The steps of main(), the one thread of the harness.
Controller ==
    \/ Launch
    \/ LaunchDone
    \/ While
    \/ Poll
    \/ Finalize
    \/ FinalizeNone
    \/ Sleep
    \/ NoSleep
    \/ Summary

Next ==
    \/ Controller
    \/ ChildWrite
    \/ ChildExit

Spec == Init /\ [][Next]_vars

\* The harness keeps running (its thread is scheduled) until it exits.
FairSpec == Spec /\ WF_vars(Controller)

(***************************************************************************)
(* The harness where the creation of a workspace can fail.                 *)
(***************************************************************************)
\* current_test_workspace.mkdir(parents=True, exist_ok=True) raises OSError:
\* nothing in the launch loop catches it, so it leaves main() and the
\* handler of __main__ logs it and calls sys.exit(1).
LaunchMkdirFails ==
    /\ pc = "launch"
    /\ launched < Len(selected_tests_for_execution)
    /\ launched + 1 \in mkdir_error
    /\ exit_code' = 1
    /\ pc' = "exited"
    /\ UNCHANGED <<tests, clock, launched, processes, proc, files, failure_logs, results,
                   failure_reasons, poll_queue, pids_to_remove, classified, report,
                   all_passed>>
    /\ UNCHANGED <<dvars, svars, rvars, evars>>

\* A run of all discovered tests in which the creation of some workspaces
\* fails.
FaultInit ==
    /\ Started
    /\ tests \in Catalogs
    /\ pc = "launch"
    /\ args = ParallelArgs
    /\ stdin = EndOfInput
    /\ selected_tests_for_execution = tests
    /\ mkdir_error \in SUBSET (1..Len(tests))
    /\ scripts = ScriptsOf(tests)
    /\ build = "ok"

FaultNext ==
    \/ Next
    \/ LaunchMkdirFails

FaultSpec == FaultInit /\ [][FaultNext]_vars

(***************************************************************************)
(* The harness with children that delete their capture files.              *)
(***************************************************************************)
\* A running child removes one of its capture files: its command runs in a
\* shell with the workspace, where the two files are, as working directory.
ChildRemoves ==
    /\ \E p \in 1..Len(proc) :
       \E f \in {stdout_file_path(selected_tests_for_execution[p]),
                 stderr_file_path(selected_tests_for_execution[p])} :
          /\ proc[p].alive
          /\ f \in DOMAIN files
          /\ files' = Remove(files, f)
    /\ UNCHANGED <<tests, pc, clock, launched, processes, proc, failure_logs, results,
                   failure_reasons, poll_queue, pids_to_remove, classified, report,
                   all_passed, exit_code>>
    /\ UNCHANGED <<dvars, svars, rvars, evars>>

MissingNext ==
    \/ Next
    \/ ChildRemoves

MissingSpec == Init /\ [][MissingNext]_vars

(***************************************************************************)
(* The harness from discovery on, in every mode: list, single, all tests.  *)
(***************************************************************************)
\* What get_test_name prints in a script: a name, or only whitespace.
QueryOutputs == TestNames \cup {<<" ">>}

\* The script directories: up to MaxTests scripts with distinct file names,
\* in the order glob finds them, which is any order.
ScriptSets ==
    LET Files == {TestFile(i) : i \in 1..MaxTests}
        Queries == {Answer(o) : o \in QueryOutputs} \cup {QueryFails}
        Scripts == {Script(f, q) : f \in Files, q \in Queries}
    IN  UNION {{ss \in [1..n -> Scripts] :
                   \A i, j \in 1..n : ss[i].file = ss[j].file => i = j} : n \in 0..MaxTests}

\* What the build of ledit does: go build and cp ledit testing/ work, one of
\* them exits non-zero (CalledProcessError), or there is no go command
\* (FileNotFoundError).
Builds == {"ok", "failed", "go missing"}

\* The build of ledit before discovery: a failure is logged, sys.exit(1).
Build ==
    /\ pc = "build"
    /\ IF build = "ok"
       THEN pc' = "discover" /\ UNCHANGED exit_code
       ELSE pc' = "exited" /\ exit_code' = 1
    /\ UNCHANGED <<tests, clock, launched, processes, proc, files, failure_logs, results,
                   failure_reasons, poll_queue, pids_to_remove, classified, report,
                   all_passed>>
    /\ UNCHANGED <<dvars, svars, rvars, evars>>

\* The values of -t the model tries: numbers around 1..MaxTests.
TestNumbers == {Decimal(n) : n \in 0..(MaxTests + 1)}

\* The command lines: --list-tests, a run of all tests, the same with
\* --keep-testing-dir, --single, -t n.
ArgSets ==
    {[ParallelArgs EXCEPT !.list_tests = TRUE],
     ParallelArgs,
     [ParallelArgs EXCEPT !.keep_testing_dir = TRUE],
     [ParallelArgs EXCEPT !.single = TRUE]}
    \cup {[ParallelArgs EXCEPT !.test_number = Some(n)] : n \in TestNumbers}

\* What input() can find: the end of input, an empty line, a blank line, a
\* number with blanks around it, a number out of range.
Inputs ==
    {EndOfInput, Some(<<>>), Some(<<" ">>), Some(<<" ", "1", " ">>),
     Some(Decimal(MaxTests + 1))}

\* single_mode = args.single or (args.test_number is not None)
single_mode == args.single \/ args.test_number # None

\* Whether a run reads the standard input: single mode without a -t value
\* (an empty -t value counts as none), outside list mode.
ReadsInput ==
    /\ ~args.list_tests
    /\ single_mode
    /\ (args.test_number = None \/ args.test_number = Some(<<>>))

\* A slip: the discovery loop ends at the first script it cannot use.
RECURSIVE DiscoveredUntilSkip(_)
DiscoveredUntilSkip(ss) ==
    IF ss = <<>> THEN <<>>
    ELSE IF Head(ss).ok /\ Strip(Head(ss).stdout) # <<>>
    THEN <<Strip(Head(ss).stdout)>> \o DiscoveredUntilSkip(Tail(ss))
    ELSE <<>>

\* The discovery loop over the sorted scripts: a script whose query exits
\* non-zero is skipped, and so is one whose name is empty after strip();
\* every other script is appended to the catalog under its stripped name.
RECURSIVE Discovered(_)
Discovered(ss) ==
    IF ss = <<>> THEN <<>>
    ELSE LET script == ss[Len(ss)]
             before == Discovered(SubSeq(ss, 1, Len(ss) - 1))
         IN  IF script.ok /\ Strip(script.stdout) # <<>>
             THEN Append(before, Strip(script.stdout))
             ELSE before

\* Discovery: the scripts are sorted and queried in that order; the harness
\* exits 1 when there is no script or no usable one.
Discover ==
    /\ pc = "discover"
    /\ \E test_script_paths \in {sorted(scripts)} :
       \E found \in {Discovered(test_script_paths)} :
          /\ scripts' = test_script_paths
          /\ tests' = found
          /\ IF found = <<>>
             THEN pc' = "exited" /\ exit_code' = 1
             ELSE pc' = "select" /\ UNCHANGED exit_code
    /\ UNCHANGED <<clock, launched, processes, proc, files, failure_logs, results,
                   failure_reasons, poll_queue, pids_to_remove, classified, report,
                   all_passed>>
    /\ UNCHANGED <<args, stdin, selected_tests_for_execution, listing, workspaces,
                   handles, mkdir_error, build, testing_dir>>
    /\ UNCHANGED <<dvars, rvars, evars>>

\* A slip: the numbers of the catalog start at 0.
tests_mapping_from_zero ==
    [num \in {Decimal(i - 1) : i \in 1..Len(tests)} |->
        tests[CHOOSE i \in 1..Len(tests) : Decimal(i - 1) = num]]

\* tests_mapping = {str(i+1): test['name'] for i, test in enumerate(tests)}
tests_mapping ==
    [num \in {Decimal(i) : i \in 1..Len(tests)} |->
        tests[CHOOSE i \in 1..Len(tests) : Decimal(i) = num]]

\* A slip: the list has a line for number 0 as well.
ListedNumbersFromZero == [i \in 1..(Len(tests) + 1) |-> Decimal(i - 1)]

\* The keys of tests_mapping in the order of tests_mapping.items().
ListedNumbers == [i \in 1..Len(tests) |-> Decimal(i)]

\* List mode: one line "num: name" per entry of tests_mapping, then
\* sys.exit(0).
ListTests ==
    /\ pc = "select"
    /\ args.list_tests
    /\ listing' = [i \in 1..Len(ListedNumbers) |->
                      [number |-> ListedNumbers[i],
                       name |-> Get(tests_mapping, ListedNumbers[i], <<>>)]]
    /\ exit_code' = 0
    /\ pc' = "exited"
    /\ UNCHANGED <<tests, clock, launched, processes, proc, files, failure_logs, results,
                   failure_reasons, poll_queue, pids_to_remove, classified, report,
                   all_passed>>
    /\ UNCHANGED <<args, stdin, selected_tests_for_execution, workspaces, handles,
                   mkdir_error, scripts, build, testing_dir>>
    /\ UNCHANGED <<dvars, rvars, evars>>

\* A slip: input() at the end of input gives the first test.
InputAtEndFirstTest == Some(Decimal(1))

\* What input() gives at the end of input: nothing (EOFError, sys.exit(1)).
InputAtEnd == None

\* selected_test_number: the -t value when it is not empty, otherwise the
\* line read by input(), stripped; None when input() raised EOFError.
selected_test_number ==
    IF args.test_number # None /\ args.test_number # Some(<<>>)
    THEN args.test_number
    ELSE IF stdin = EndOfInput THEN InputAtEnd ELSE Some(Strip(stdin[1]))

\* The selection of single mode: None when the harness exits 1 (no number,
\* an empty one, or one that is not a key of tests_mapping), otherwise the
\* tests whose name is the name of the selected number.
SingleSelection ==
    IF selected_test_number = None \/ selected_test_number = Some(<<>>)
    THEN None
    ELSE IF selected_test_number[1] \notin DOMAIN tests_mapping
    THEN None
    ELSE LET selected_test_name == tests_mapping[selected_test_number[1]]
             HasName(test_name) == test_name = selected_test_name
         IN  Some(SelectSeq(tests, HasName))

\* Selection: single mode selects by number or exits 1; otherwise every
\* discovered test is selected.
Select ==
    /\ pc = "select"
    /\ ~args.list_tests
    /\ \E selection \in {IF single_mode THEN SingleSelection ELSE Some(tests)} :
          IF selection = None
          THEN /\ pc' = "exited"
               /\ exit_code' = 1
               /\ UNCHANGED selected_tests_for_execution
          ELSE /\ pc' = "launch"
               /\ selected_tests_for_execution' = selection[1]
               /\ UNCHANGED exit_code
    /\ UNCHANGED <<tests, clock, launched, processes, proc, files, failure_logs, results,
                   failure_reasons, poll_queue, pids_to_remove, classified, report,
                   all_passed>>
    /\ UNCHANGED <<args, stdin, listing, workspaces, handles, mkdir_error, scripts,
                   build, testing_dir>>
    /\ UNCHANGED <<dvars, rvars, evars>>

\* The harness before the build; the standard input is left at its end in
\* the runs that do not read it.
ModeInit ==
    /\ Started
    /\ tests = <<>>
    /\ pc = "build"
    /\ scripts \in ScriptSets
    /\ build \in Builds
    /\ args \in ArgSets
    /\ stdin \in Inputs
    /\ ~ReadsInput => stdin = EndOfInput
    /\ selected_tests_for_execution = <<>>
    /\ mkdir_error = {}

ModeNext ==
    \/ Build
    \/ Discover
    \/ ListTests
    \/ Select
    \/ Next

ModeSpec == ModeInit /\ [][ModeNext]_vars

(***************************************************************************)
(* extract_failure_reason on its own: a child writes chunks of text to its *)
(* two streams, and the captured text is then diagnosed.                   *)
(***************************************************************************)
\* A text longer than the limit of a reason.
LongText == [i \in 1..(ReasonLimit + 1) |-> "x"]

Chunks ==
    { <<"e","r","r","o","r",":">>,
      <<"E","r","r","o","r",":">>,
      <<"f","a","i","l","e","d",":">>,
      <<"F","A","I","L","E","D",":">>,
      <<"a","s","s","e","r","t","i","o","n"," ","f","a","i","l","e","d">>,
      <<"A","s","s","e","r","t","i","o","n"," ","F","a","i","l","e","d">>,
      <<" ">>,
      <<"d","i","s","k"," ","f","u","l","l">> }

HarnessOff ==
    /\ tests = <<>>
    /\ pc = "off"
    /\ clock = 0
    /\ launched = 0
    /\ processes = <<>>
    /\ proc = <<>>
    /\ files = EmptyDict
    /\ failure_logs = EmptyDict
    /\ results = EmptyDict
    /\ failure_reasons = EmptyDict
    /\ poll_queue = <<>>
    /\ pids_to_remove = <<>>
    /\ classified = <<>>
    /\ report = <<>>
    /\ all_passed = TRUE
    /\ exit_code = NotExited
    /\ args = ParallelArgs
    /\ stdin = EndOfInput
    /\ selected_tests_for_execution = <<>>
    /\ listing = <<>>
    /\ workspaces = {}
    /\ handles = {}
    /\ mkdir_error = {}
    /\ scripts = <<>>
    /\ build = "ok"
    /\ testing_dir = FALSE

DiagInit ==
    /\ HarnessOff
    /\ RunnerOff
    /\ ExamplesOff
    /\ cap_stdout = <<>>
    /\ cap_stderr = <<>>
    /\ reason = <<>>
    /\ writes = 0
    /\ dpc = "write"

\* The child writes a chunk to its stdout.
WriteStdout ==
    /\ dpc = "write"
    /\ writes < MaxWrites
    /\ \E c \in Chunks : cap_stdout' = cap_stdout \o c
    /\ writes' = writes + 1
    /\ UNCHANGED <<cap_stderr, reason, dpc>>
    /\ UNCHANGED <<hvars, svars, rvars, evars>>

\* The child writes a chunk to its stderr.
WriteStderr ==
    /\ dpc = "write"
    /\ writes < MaxWrites
    /\ \E c \in Chunks : cap_stderr' = cap_stderr \o c
    /\ writes' = writes + 1
    /\ UNCHANGED <<cap_stdout, reason, dpc>>
    /\ UNCHANGED <<hvars, svars, rvars, evars>>

\* The captured text is diagnosed.
Extract ==
    /\ dpc = "write"
    /\ reason' = extract_failure_reason(cap_stdout, cap_stderr)
    /\ dpc' = "done"
    /\ UNCHANGED <<cap_stdout, cap_stderr, writes>>
    /\ UNCHANGED <<hvars, svars, rvars, evars>>

DiagNext ==
    \/ WriteStdout
    \/ WriteStderr
    \/ Extract

DiagSpec == DiagInit /\ [][DiagNext]_vars

(***************************************************************************)
(* extract_failure_reason at its length limit: the chunks include a text   *)
(* longer than the limit.                                                  *)
(***************************************************************************)
LimitChunks ==
    { LongText,
      <<"E","r","r","o","r",":">>,
      <<"f","a","i","l","e","d",":">>,
      <<" ">>,
      <<"d","i","s","k"," ","f","u","l","l">> }

\* The child writes a chunk to its stdout.
WriteLimitStdout ==
    /\ dpc = "write"
    /\ writes < MaxWrites
    /\ \E c \in LimitChunks : cap_stdout' = cap_stdout \o c
    /\ writes' = writes + 1
    /\ UNCHANGED <<cap_stderr, reason, dpc>>
    /\ UNCHANGED <<hvars, svars, rvars, evars>>

\* The child writes a chunk to its stderr.
WriteLimitStderr ==
    /\ dpc = "write"
    /\ writes < MaxWrites
    /\ \E c \in LimitChunks : cap_stderr' = cap_stderr \o c
    /\ writes' = writes + 1
    /\ UNCHANGED <<cap_stdout, reason, dpc>>
    /\ UNCHANGED <<hvars, svars, rvars, evars>>

LimitNext ==
    \/ WriteLimitStdout
    \/ WriteLimitStderr
    \/ Extract

LimitSpec == DiagInit /\ [][LimitNext]_vars

(***************************************************************************)
(* Properties of the harness.                                              *)
(***************************************************************************)
TerminalStatuses == {"PASS", "FAIL", "FAIL (Timeout)"}

\* The discovered test names are pairwise distinct.
NamesDistinct == \A i, j \in 1..Len(tests) : i # j => tests[i] # tests[j]

\* The pids in the live set.
LivePids == {processes[i].pid : i \in 1..Len(processes)}

\* A step of the polling for-loop, and of the loop over pids_to_remove.
IsPollStep == pc = "poll" /\ poll_queue' # poll_queue
IsFinalizeStep == pc = "finalize" /\ pids_to_remove' # pids_to_remove

\* C1: with pairwise distinct test names, the status of a launched test only
\* ever changes from RUNNING to PASS, FAIL or FAIL (Timeout), so it changes at
\* most once and a terminal status is never changed again; and when the
\* monitoring loop has ended every launched test has a terminal status, so
\* it changed exactly once.
C1_StatusChangesOnce ==
    /\ [][NamesDistinct =>
            \A name \in DOMAIN results :
               /\ name \in DOMAIN results'
               /\ results'[name] # results[name] =>
                     results[name] = "RUNNING" /\ results'[name] \in TerminalStatuses]_vars
    /\ [](NamesDistinct /\ pc \in {"summary", "done"} =>
            \A i \in 1..Len(tests) :
               tests[i] \in DOMAIN results /\ results[tests[i]] \in TerminalStatuses)

\* Two tests with distinct names, one timed out and one passed, and the
\* harness has reported and exited.
C1_Witness ==
    /\ NamesDistinct
    /\ Len(tests) = 2
    /\ pc = "done"
    /\ results[tests[1]] = "FAIL (Timeout)"
    /\ results[tests[2]] = "PASS"

\* C2: a poll of a live run classifies it by what the poll observes alone:
\* exited with code 0 gives PASS, exited with another code gives FAIL (both
\* whatever time has elapsed), running with elapsed time over the timeout is
\* killed and gives FAIL (Timeout), running with elapsed time at most the
\* timeout changes nothing (the run stays RUNNING and in the live set); no
\* run is marked timed out while its elapsed time is at most the timeout.
C2_PollClassification ==
    [][IsPollStep =>
        LET pid == Head(poll_queue)
            info == InfoOf(pid)
            elapsed == clock - info.start_time
            exited == ~proc[pid].alive
            finished(status) ==
                /\ results'[info.name] = status
                /\ classified'[pid] = status
                /\ pids_to_remove' = Append(pids_to_remove, pid)
        IN  /\ exited /\ proc[pid].returncode = 0 => finished("PASS")
            /\ exited /\ proc[pid].returncode # 0 => finished("FAIL")
            /\ ~exited /\ elapsed > timeout =>
                  finished("FAIL (Timeout)") /\ ~proc'[pid].alive
            /\ ~exited /\ elapsed <= timeout =>
                  /\ classified[pid] = "RUNNING"
                  /\ NamesDistinct => results[info.name] = "RUNNING"
                  /\ UNCHANGED <<proc, results, classified, pids_to_remove, processes>>
                  /\ pid \in LivePids
            /\ classified'[pid] = "FAIL (Timeout)" => elapsed > timeout]_vars

\* An iteration has polled two live runs at the same time: one was past the
\* timeout and is timed out, the other is exactly at the timeout and still
\* RUNNING.
C2_Witness ==
    /\ pc = "finalize"
    /\ \E i, j \in 1..Len(processes) :
          /\ classified[processes[i].pid] = "FAIL (Timeout)"
          /\ classified[processes[j].pid] = "RUNNING"
          /\ proc[processes[j].pid].alive
          /\ clock - processes[j].start_time = timeout

ExpectedTimeoutMessage ==
    <<"T","e","s","t"," ","t","i","m","e","d"," ","o","u","t"," ","a","f","t","e","r"," ",
      "2","1","0"," ","s","e","c","o","n","d","s">>

\* C3 as claimed: every test whose process ran for longer than the timeout
\* is, once finalized, classified FAIL (Timeout) with the fixed timeout
\* message as its reason, and its process is not alive.
C3_Original ==
    \A pid \in 1..Len(proc) :
        (NamesDistinct /\ proc[pid].overran /\ pid \notin LivePids) =>
            /\ classified[pid] = "FAIL (Timeout)"
            /\ ~proc[pid].alive
            /\ Get(failure_reasons, tests[pid], <<>>) = ExpectedTimeoutMessage

\* C3 as amended: a run whose process is still running at a poll where its
\* elapsed time is over the timeout is killed by that poll, classified FAIL
\* (Timeout) and given the reason "Test timed out after 210 seconds"; a run
\* classified FAIL (Timeout) is never alive again and did run for longer
\* than the timeout; a process that exits by itself is classified by its
\* exit code, also when it ran for longer than the timeout.
C3_TimedOutWhenPolledRunning ==
    /\ [][IsPollStep =>
            LET pid == Head(poll_queue)
                info == InfoOf(pid)
            IN  proc[pid].alive /\ clock - info.start_time > timeout =>
                   /\ classified'[pid] = "FAIL (Timeout)"
                   /\ results'[info.name] = "FAIL (Timeout)"
                   /\ failure_reasons'[info.name] = ExpectedTimeoutMessage
                   /\ ~proc'[pid].alive]_vars
    /\ [](\A pid \in 1..Len(proc) :
            /\ classified[pid] = "FAIL (Timeout)" =>
                  ~proc[pid].alive /\ proc[pid].overran /\ proc[pid].returncode = -9
            /\ classified[pid] = "PASS" => ~proc[pid].alive /\ proc[pid].returncode = 0
            /\ classified[pid] = "FAIL" =>
                  ~proc[pid].alive /\ proc[pid].returncode \in ExitCodes \ {0})

\* One run was still running at a poll past its timeout and is timed out;
\* another ran for longer than the timeout, exited with code 0 before the
\* next poll and is PASS.
C3_Witness ==
    /\ pc = "done"
    /\ \E p, q \in 1..Len(proc) :
          /\ classified[p] = "FAIL (Timeout)"
          /\ proc[q].overran
          /\ classified[q] = "PASS"

\* C4: the exit code of the harness is 0 if and only if every executed run
\* was classified PASS, and 1 otherwise.
C4_ExitCodeIffAllPass ==
    pc = "done" =>
        /\ exit_code = 0 <=> \A pid \in 1..Len(proc) : classified[pid] = "PASS"
        /\ exit_code = 1 <=> \E pid \in 1..Len(proc) : classified[pid] # "PASS"

\* C5: two runs that are live at the same time have different workspaces
\* and different capture files.
C5_WorkspacesDistinct ==
    \A i, j \in 1..Len(processes) :
        (NamesDistinct /\ i # j) =>
            /\ current_test_workspace(processes[i].name)
                  # current_test_workspace(processes[j].name)
            /\ stdout_file_path(processes[i].name) # stdout_file_path(processes[j].name)
            /\ stderr_file_path(processes[i].name) # stderr_file_path(processes[j].name)

\* C6: the results table has one line per discovered test, in discovery
\* order, and the line of a test shows the final status of its run.
C6_ReportEveryTestOnce ==
    pc = "done" =>
        /\ Len(report) = Len(tests)
        /\ \A i \in 1..Len(tests) :
              /\ report[i].name = tests[i]
              /\ report[i].result = classified[i]

C8_SiblingsUntouched ==
    [][\A pid \in 1..Len(proc) :
          (\/ IsPollStep /\ Head(poll_queue) = pid
           \/ IsFinalizeStep /\ Head(pids_to_remove) = pid) =>
              \A q \in (1..Len(proc)) \ {pid} :
                 /\ results'[tests[q]] = results[tests[q]]
                 /\ proc'[q] = proc[q]
                 /\ (q \in LivePids) <=> (q \in LivePids')
                 /\ q \in LivePids => InfoOf(q)' = InfoOf(q)]_vars

(***************************************************************************)
(* Properties of extract_failure_reason.                                   *)
(***************************************************************************)
\* The text of s that follows the last place where sep occurs in s (s
\* itself when sep does not occur).
AfterLast(s, sep) ==
    LET places == {i \in 1..Len(s) : OccursAt(s, sep, i)}
    IN  IF places = {} THEN s
        ELSE LET last == CHOOSE i \in places : \A j \in places : j <= i
             IN  SubSeq(s, last + Len(sep), Len(s))

\* The text of s that follows the last place where sep occurs in s in any
\* letter case (sep is in lower case).
AfterLastAnyCase(s, sep) ==
    LET places == {i \in 1..Len(s) : OccursAt(Lower(s), sep, i)}
    IN  IF places = {} THEN s
        ELSE LET last == CHOOSE i \in places : \A j \in places : j <= i
             IN  SubSeq(s, last + Len(sep), Len(s))

\* The conditions of the three marker rules.
HasErrorMarker == Contains(Lower(cap_stderr), ErrorMarker)
HasFailedMarker == Contains(Lower(cap_stdout), FailedMarker)
HasAssertionMarker == Contains(Lower(cap_stderr), AssertionMarker)
NoMarker == ~HasErrorMarker /\ ~HasFailedMarker /\ ~HasAssertionMarker

\* C9: when stderr contains "error:" in any letter case, the reason is the
\* text of stderr that follows the last such marker, trimmed.
C9_ErrorMarkerRule ==
    dpc = "done" /\ HasErrorMarker =>
        reason = Strip(AfterLastAnyCase(cap_stderr, ErrorMarker))

\* The marker rules, in their order; the text cut off is what follows the
\* last marker spelled in lower case (the whole stream when the marker only
\* occurs in another letter case: C9).
MarkerRules ==
    /\ HasErrorMarker => reason = Strip(AfterLast(cap_stderr, ErrorMarker))
    /\ ~HasErrorMarker /\ HasFailedMarker =>
          reason = Strip(AfterLast(cap_stdout, FailedMarker))
    /\ ~HasErrorMarker /\ ~HasFailedMarker /\ HasAssertionMarker =>
          reason = Strip(AfterLast(cap_stderr, AssertionMarker))

Chars == UNION {Range(c) : c \in LimitChunks} \cup Range(UnknownReason)

\* Whether a text is empty or holds only whitespace.
IsBlank(s) == \A i \in 1..Len(s) : s[i] \in Whitespace

\* C11: extract_failure_reason returns for every stdout and stderr (it never
\* fails), what it returns is a string of at most 1000 characters, and it
\* is the sentinel "Unknown failure reason" when stdout and stderr are both
\* empty or whitespace-only.
C11_ReasonBounded ==
    /\ dpc = "write" => ENABLED Extract
    /\ dpc = "done" =>
          /\ reason \in [1..Len(reason) -> Chars]
          /\ Len(reason) <= 1000
          /\ IsBlank(cap_stdout) /\ IsBlank(cap_stderr) => reason = UnknownReason

\* A text of more than 1000 characters has been cut to 1000, after a marker.
C11_Witness ==
    /\ dpc = "done"
    /\ HasErrorMarker
    /\ Len(Strip(AfterLast(cap_stderr, ErrorMarker))) > 1000
    /\ Len(reason) = 1000

\* Both streams hold whitespace only and the sentinel is returned.
C11_WitnessBlank ==
    /\ dpc = "done"
    /\ cap_stdout # <<>> /\ cap_stderr # <<>>
    /\ IsBlank(cap_stdout) /\ IsBlank(cap_stderr)
    /\ reason = UnknownReason

(***************************************************************************)
(* Properties of the failure reasons.                                      *)
(***************************************************************************)
\* The launched runs that have been finalized.
Finalized == (1..Len(proc)) \ LivePids

\* C12: with pairwise distinct test names, a finalized run has a failure
\* reason if and only if its status is not PASS; a reason once set is never
\* set again; and the tests that have a reason (those the failure-reason
\* summary lists) are tests whose status is FAIL or FAIL (Timeout).
C12_ReasonIffNotPass ==
    /\ [](NamesDistinct =>
            /\ \A pid \in Finalized :
                  selected_tests_for_execution[pid] \in DOMAIN failure_reasons
                     <=> classified[pid] # "PASS"
            /\ \A name \in DOMAIN failure_reasons :
                  results[name] \in {"FAIL", "FAIL (Timeout)"})
    /\ [][NamesDistinct =>
            \A name \in DOMAIN failure_reasons :
               /\ name \in DOMAIN failure_reasons'
               /\ failure_reasons'[name] = failure_reasons[name]]_vars

\* Two tests with distinct names have ended, the first PASS and the second
\* FAIL, and only the second has a reason.
C12_Witness ==
    /\ pc = "done"
    /\ NamesDistinct
    /\ classified = <<"PASS", "FAIL">>
    /\ DOMAIN failure_reasons = {selected_tests_for_execution[2]}

\* C13: a run that was timed out has the fixed timeout message as its
\* failure reason from the kill on, in every later state, whatever was
\* captured: no diagnosis overwrites it.
C13_TimeoutReasonKept ==
    \A pid \in 1..Len(proc) :
        classified[pid] = "FAIL (Timeout)" =>
            /\ selected_tests_for_execution[pid] \in DOMAIN failure_reasons
            /\ failure_reasons[selected_tests_for_execution[pid]] = ExpectedTimeoutMessage

(***************************************************************************)
(* Properties of the capture files.                                        *)
(***************************************************************************)
\* The capture files of the run with this pid.
CaptureFiles(pid) ==
    {stdout_file_path(selected_tests_for_execution[pid]),
     stderr_file_path(selected_tests_for_execution[pid])}

\* No two selected tests have the same sanitized name.
SanitizedNamesDistinct ==
    \A i, j \in 1..Len(selected_tests_for_execution) :
        i # j => sanitized_test_name(selected_tests_for_execution[i])
                    # sanitized_test_name(selected_tests_for_execution[j])

\* C14: when the finalization of a run reads its capture files back, the
\* handles of the harness on them are closed and the child has terminated:
\* no process that is still running has one of these files as its stdout
\* or stderr, and the harness has no open handle on them (stated for
\* pairwise distinct test names).
C14_ReadAfterCloseAndExit ==
    [][IsFinalizeStep =>
        LET pid == Head(pids_to_remove)
        IN  (NamesDistinct /\ ReadsOutput(results[InfoOf(pid).name])) =>
               /\ pid \notin handles'
               /\ ~proc[pid].alive
               /\ \A q \in 1..Len(proc) :
                     (proc[q].alive \/ q \in handles') =>
                         CaptureFiles(q) \cap CaptureFiles(pid) = {}]_vars

(***************************************************************************)
(* Properties of the launch loop.                                          *)
(***************************************************************************)
WorkspaceCreationFailed ==
    <<"w","o","r","k","s","p","a","c","e"," ","c","r","e","a","t","i","o","n"," ",
      "f","a","i","l","e","d">>

\* C15: when the workspace of a selected test cannot be created, the harness
\* still ends with its report, that test is recorded FAIL with the reason
\* "workspace creation failed", and every other selected test was launched
\* and has a terminal status.
C15_WorkspaceFailureIsLocal ==
    (pc \in {"exited", "done"} /\ NamesDistinct) =>
        \A k \in 1..Len(selected_tests_for_execution) :
            k \in mkdir_error =>
                LET name == selected_tests_for_execution[k]
                IN  /\ pc = "done"
                    /\ Len(report) = Len(tests)
                    /\ Get(results, name, "NOT RUN") = "FAIL"
                    /\ Get(failure_reasons, name, <<>>) = WorkspaceCreationFailed
                    /\ \A other \in Range(selected_tests_for_execution) \ {name} :
                          Get(results, other, "NOT RUN") \in TerminalStatuses

(***************************************************************************)
(* The sequential runners: integration_test_runner.py, e2e_test_runner.py. *)
(* Their test directory exists; the tests are the sorted *.sh files.       *)
(***************************************************************************)
\* The values of -t the model tries (argparse type=int).
RunnerTestNumbers == (0 - 1)..(MaxScripts + 1)

\* How a test script run by subprocess.run(..., timeout=...) ends.
Outcomes == {"exit 0", "exit 1", "timeout"}

\* The exit code a single-test run hands to sys.exit.
ExitOf(outcome) == IF outcome = "exit 0" THEN 0 ELSE 1

\* not args.test: no -t, or -t 0.
NotArgsTest == rargs.test = None \/ rargs.test = Some(0)

\* A slip: the result of go build is not looked at.
BuildFailureIgnored == FALSE

\* go build did not produce ledit: build_result.returncode != 0, or there
\* is no go command and subprocess.run raises FileNotFoundError.
BuildFailed == renv.build # "ok"

\* The runner exits with this code.
RunnerExits(code) ==
    /\ rexit' = code
    /\ rpc' = "exited"

\* if args.list: the tests are listed, sys.exit(0).
RunnerList ==
    /\ rpc = "start"
    /\ rargs.list
    /\ rprinted' = rtests
    /\ RunnerExits(0)
    /\ UNCHANGED <<runner, rargs, rtests, renv, ran>>
    /\ UNCHANGED <<hvars, dvars, svars, evars>>

\* if not args.test: all tests are to be run. The integration runner lists
\* the tests, then builds ledit when the binary is missing (a failed build
\* exits 1, and so does the exception of a missing go, in the handler of
\* __main__); the e2e runner asks for confirmation unless --yes was given
\* (any answer but y exits 0).
RunnerAll ==
    /\ rpc = "start"
    /\ ~rargs.list
    /\ NotArgsTest
    /\ IF runner = "integration"
       THEN /\ rprinted' = rtests
            /\ IF ~renv.ledit_exists /\ BuildFailed
               THEN RunnerExits(1)
               ELSE rpc' = "all" /\ UNCHANGED rexit
       ELSE /\ UNCHANGED rprinted
            /\ IF ~rargs.yes /\ LowerChar(renv.response) # "y"
               THEN RunnerExits(0)
               ELSE rpc' = "all" /\ UNCHANGED rexit
    /\ UNCHANGED <<runner, rargs, rtests, renv, ran>>
    /\ UNCHANGED <<hvars, dvars, svars, evars>>

\* if args.test < 1 or args.test > len(tests): the error is printed,
\* sys.exit(1).
RunnerRangeError ==
    /\ rpc = "start"
    /\ ~rargs.list
    /\ ~NotArgsTest
    /\ (rargs.test[1] < 1 \/ rargs.test[1] > Len(rtests))
    /\ RunnerExits(1)
    /\ UNCHANGED <<runner, rargs, rtests, renv, ran, rprinted>>
    /\ UNCHANGED <<hvars, dvars, svars, evars>>

\* One test by number: the test is named, ledit is built (a failed build
\* exits 1), the script is run, and the runner exits with its exit code (1
\* on a timeout).
RunnerSingle ==
    /\ rpc = "start"
    /\ ~rargs.list
    /\ ~NotArgsTest
    /\ ~(rargs.test[1] < 1 \/ rargs.test[1] > Len(rtests))
    /\ rprinted' = <<rtests[rargs.test[1]]>>
    /\ IF BuildFailed
       THEN RunnerExits(1) /\ UNCHANGED ran
       ELSE \E outcome \in Outcomes :
               /\ ran' = <<[test |-> rtests[rargs.test[1]], outcome |-> outcome]>>
               /\ RunnerExits(ExitOf(outcome))
    /\ UNCHANGED <<runner, rargs, rtests, renv>>
    /\ UNCHANGED <<hvars, dvars, svars, evars>>

\* One turn of the loop over all tests: the next script is run. In the
\* integration runner any other exception counts as a failure too; in the
\* e2e runner every test builds ledit first: a go build that exits non-zero
\* is the failure of that test (run_single_test returns 1), and a missing
\* go raises FileNotFoundError, which nothing catches: the runner ends with
\* a traceback and exit code 1.
RunnerNext ==
    /\ rpc = "all"
    /\ Len(ran) < Len(rtests)
    /\ IF runner = "e2e" /\ renv.build = "go missing"
       THEN RunnerExits(1) /\ UNCHANGED ran
       ELSE /\ \E outcome \in IF runner = "integration" THEN Outcomes \cup {"error"}
                             ELSE IF BuildFailed THEN {"build failed"}
                             ELSE Outcomes :
                 ran' = Append(ran, [test |-> rtests[Len(ran) + 1], outcome |-> outcome])
            /\ UNCHANGED <<rpc, rexit>>
    /\ UNCHANGED <<runner, rargs, rtests, renv, rprinted>>
    /\ UNCHANGED <<hvars, dvars, svars, evars>>

\* After the loop: exit 0 when no test failed, 1 otherwise.
RunnerAllDone ==
    /\ rpc = "all"
    /\ Len(ran) = Len(rtests)
    /\ RunnerExits(IF \A i \in 1..Len(ran) : ran[i].outcome = "exit 0" THEN 0 ELSE 1)
    /\ UNCHANGED <<runner, rargs, rtests, renv, ran, rprinted>>
    /\ UNCHANGED <<hvars, dvars, svars, evars>>

RunnerInit ==
    /\ HarnessOff
    /\ DiagnosisOff
    /\ ExamplesOff
    /\ runner \in {"integration", "e2e"}
    /\ rargs \in [test : {None} \cup {Some(n) : n \in RunnerTestNumbers},
                  list : BOOLEAN, yes : BOOLEAN]
    /\ rtests \in {[i \in 1..n |-> i] : n \in 0..MaxScripts}
    /\ renv \in [build : Builds, ledit_exists : BOOLEAN, response : {"y", "Y", "n"}]
    /\ rpc = "start"
    /\ ran = <<>>
    /\ rprinted = <<>>
    /\ rexit = NotExited

RunnerNextStep ==
    \/ RunnerList
    \/ RunnerAll
    \/ RunnerRangeError
    \/ RunnerSingle
    \/ RunnerNext
    \/ RunnerAllDone

RunnerSpec == RunnerInit /\ [][RunnerNextStep]_vars

(***************************************************************************)
(* Properties of discovery, list mode and selection.                       *)
(***************************************************************************)
\* Discovery and the choice of the mode are over.
ModeDecided == pc \notin {"build", "discover", "select"}

\* Nothing was launched: no child process, no workspace, no capture file.
NothingLaunched ==
    /\ launched = 0
    /\ proc = <<>>
    /\ processes = <<>>
    /\ workspaces = {}
    /\ files = EmptyDict

\* The numbers 1..N of the catalog, as the text a user gives.
NumbersInRange == {Decimal(k) : k \in 1..Len(tests)}

\* C16: after discovery no two tests of the catalog have the same name.
C16_CatalogNamesUnique == pc # "discover" => NamesDistinct

\* C17: in single mode, a requested test number (given with -t or typed)
\* that is not one of 1..N makes the harness exit with code 1, and nothing
\* is launched: no child process and no workspace.
C17_OutOfRangeExits ==
    (/\ ModeDecided
     /\ ~args.list_tests
     /\ single_mode
     /\ selected_test_number # None
     /\ selected_test_number # Some(<<>>)
     /\ selected_test_number[1] \notin NumbersInRange) =>
        /\ pc = "exited"
        /\ exit_code = 1
        /\ NothingLaunched

\* Two tests were discovered and test number 3 was requested with -t: the
\* harness has exited with code 1.
C17_Witness ==
    /\ pc = "exited"
    /\ Len(tests) = 2
    /\ args.test_number = Some(Decimal(3))
    /\ exit_code = 1

\* C18: in the sequential runners a requested test number outside
\* 1..len(tests), 0 included, makes the runner exit with code 1 and no test
\* script is run.
C18_RunnerOutOfRangeIsFatal ==
    (/\ rpc \notin {"off", "start"}
     /\ ~rargs.list
     /\ rargs.test # None
     /\ rargs.test[1] \notin 1..Len(rtests)) =>
        /\ rpc = "exited"
        /\ rexit = 1
        /\ ran = <<>>

\* C19: in single mode without a -t number, when input() finds the end of
\* input or an empty (or blank) line the harness exits with code 1 and
\* nothing is launched; and the harness never waits at the selection: its
\* step is always possible.
C19_NoInputExits ==
    /\ (/\ ModeDecided
        /\ tests # <<>>
        /\ ReadsInput
        /\ (stdin = EndOfInput \/ Strip(stdin[1]) = <<>>)) =>
           /\ pc = "exited"
           /\ exit_code = 1
           /\ NothingLaunched
    /\ pc = "select" => ENABLED (ListTests \/ Select)

\* --single was given without -t, tests were discovered, the input was at
\* its end, and the harness has exited with code 1.
C19_Witness ==
    /\ pc = "exited"
    /\ tests # <<>>
    /\ args.single
    /\ args.test_number = None
    /\ stdin = EndOfInput
    /\ exit_code = 1

\* The lines list mode prints for the catalog: "k: name" for k = 1..N, in
\* discovery order.
ExpectedListing == [k \in 1..Len(tests) |-> [number |-> Decimal(k), name |-> tests[k]]]

Usable(script) == script.ok /\ ~IsBlank(script.stdout)

\* The usable scripts of the directory, by their place in scripts.
UsableScripts == {i \in 1..Len(scripts) : Usable(scripts[i])}

\* C21: discovery skips a script whose name query prints an empty or blank
\* name and a script whose name query exits non-zero, and goes on with the
\* scripts after it: every usable script is in the catalog, and nothing
\* else is. Discovery makes the harness exit with code 1, before anything
\* is launched, if and only if no script is usable.
C21_SkipsUnusableScripts ==
    [][pc = "discover" =>
          /\ \A i \in UsableScripts :
                \E k \in 1..Len(tests') : tests'[k] = Strip(scripts[i].stdout)
          /\ Len(tests') = Cardinality(UsableScripts)
          /\ (pc' = "exited" /\ exit_code' = 1) <=> UsableScripts = {}
          /\ pc' # "exited" => pc' = "select" /\ exit_code' = NotExited
          /\ NothingLaunched']_vars

\* Of two scripts the first in file-name order was skipped, and the second
\* is the catalog.
C21_Witness ==
    /\ pc = "select"
    /\ Len(scripts) = 2
    /\ ~Usable(scripts[1])
    /\ Usable(scripts[2])
    /\ tests = <<Strip(scripts[2].stdout)>>

\* C22: the numbers of the catalog are exactly 1..N, N the number of usable
\* scripts, and number k is the name of the usable script with k - 1 usable
\* scripts before it in the lexicographic order of the file names, in
\* whatever order the files were found: discovery on the same files with the
\* same answers gives the same numbering.
C22_OrdinalsFollowFileNames ==
    [][pc = "discover" =>
          LET Rank(i) == 1 + Cardinality({j \in UsableScripts :
                                             LexLess(scripts[j].file, scripts[i].file)})
          IN  /\ DOMAIN tests_mapping' = {Decimal(k) : k \in 1..Cardinality(UsableScripts)}
              /\ \A i \in UsableScripts :
                    tests_mapping'[Decimal(Rank(i))] = Strip(scripts[i].stdout)]_vars

\* Two usable scripts with different names were discovered: test_B, whose
\* file name sorts first, is number 1, and test_a is number 2.
C22_Witness ==
    /\ pc = "select"
    /\ Len(scripts) = 2
    /\ scripts[1].file = TestFile(2)
    /\ scripts[2].file = TestFile(1)
    /\ Len(tests) = 2
    /\ tests[1] # tests[2]
    /\ tests_mapping[Decimal(1)] = Strip(scripts[1].stdout)
    /\ tests_mapping[Decimal(2)] = Strip(scripts[2].stdout)

(***************************************************************************)
(* Properties of the report and of the cleanup.                            *)
(***************************************************************************)
\* C23: the results table has one line per discovered test; a test that was
\* not selected, or that has no entry in results, has the result NOT RUN;
\* and the harness exits with a non-zero code only when a line says FAIL or
\* FAIL (Timeout): lines with NOT RUN beside lines with PASS leave the exit
\* code 0.
C23_NotRunIsReported ==
    pc = "done" =>
        /\ Len(report) = Len(tests)
        /\ \A i \in 1..Len(tests) :
              (tests[i] \notin Range(selected_tests_for_execution)
                  \/ tests[i] \notin DOMAIN results) =>
                 report[i] = [name |-> tests[i], result |-> "NOT RUN"]
        /\ exit_code = 1 =>
              \E i \in 1..Len(report) : report[i].result \in {"FAIL", "FAIL (Timeout)"}
        /\ (\A i \in 1..Len(report) : report[i].result \in {"PASS", "NOT RUN"}) =>
              exit_code = 0

\* Of two discovered tests the first was selected with -t 1 and passed: the
\* second is reported NOT RUN and the exit code is 0.
C23_Witness ==
    /\ pc = "done"
    /\ single_mode
    /\ Len(tests) = 2
    /\ report[1].result = "PASS"
    /\ report[2].result = "NOT RUN"
    /\ exit_code = 0

(***************************************************************************)
(* Properties of the build.                                                *)
(***************************************************************************)
\* test_runner.py (and test.py, whose build is the same code) has met a
\* build that failed.
HarnessBuildFailed == pc # "build" /\ build # "ok"

\* integration_test_runner.py has attempted a build that failed: with all
\* tests to run when there was no ledit binary, with one valid test number
\* always.
IntegrationBuildFailed ==
    /\ runner = "integration"
    /\ rpc # "start"
    /\ ~rargs.list
    /\ renv.build # "ok"
    /\ \/ NotArgsTest /\ ~renv.ledit_exists
       \/ ~NotArgsTest /\ rargs.test[1] \in 1..Len(rtests)

\* C24 as claimed: when the build of ledit fails (go build fails, or go is
\* missing), test_runner.py, test.py and integration_test_runner.py exit
\* with code 1 before the discovered tests are used and before a test is
\* run.
C24_Original ==
    /\ HarnessBuildFailed =>
          /\ pc = "exited"
          /\ exit_code = 1
          /\ tests = <<>>
          /\ listing = <<>>
          /\ NothingLaunched
    /\ IntegrationBuildFailed =>
          /\ rpc = "exited"
          /\ rexit = 1
          /\ rprinted = <<>>
          /\ ran = <<>>

\* C24 as amended: when the build of ledit fails, test_runner.py and test.py
\* exit with code 1 before discovery and before a test is launched; the
\* integration runner exits with code 1 before a test script is run, after
\* it has discovered the tests and named them: all of them when all are to
\* be run, the selected one otherwise.
C24_BuildFailureIsFatal ==
    /\ HarnessBuildFailed =>
          /\ pc = "exited"
          /\ exit_code = 1
          /\ tests = <<>>
          /\ listing = <<>>
          /\ NothingLaunched
    /\ IntegrationBuildFailed =>
          /\ rpc = "exited"
          /\ rexit = 1
          /\ rprinted = IF NotArgsTest THEN rtests ELSE <<rtests[rargs.test[1]]>>
          /\ ran = <<>>

\* The integration runner was to run its two tests, there was no ledit
\* binary and no go command: it has listed the two tests and exited with
\* code 1 without running one.
C24_Witness ==
    /\ runner = "integration"
    /\ rpc = "exited"
    /\ rargs.test = None
    /\ ~rargs.list
    /\ ~renv.ledit_exists
    /\ renv.build = "go missing"
    /\ Len(rtests) = 2
    /\ rprinted = rtests
    /\ ran = <<>>
    /\ rexit = 1

\* The build of test_runner.py failed with a usable script in the
\* directory: the harness has exited with code 1 and discovered nothing.
C24_HarnessWitness ==
    /\ pc = "exited"
    /\ build = "failed"
    /\ UsableScripts # {}
    /\ tests = <<>>
    /\ exit_code = 1

\* C25: when all e2e tests are to be run and the build of ledit fails, the
\* run is over at once: no further test is attempted, and the runner exits
\* with code 1.
C25_BuildFailureAbortsRun ==
    (/\ runner = "e2e"
     /\ \E i \in 1..Len(ran) : ran[i].outcome = "build failed") =>
        /\ Len(ran) = 1
        /\ ENABLED RunnerAllDone \/ (rpc = "exited" /\ rexit = 1)

\* C26: after a run of test_runner.py the directory testing/ has been
\* deleted if and only if every executed test passed and --keep-testing-dir
\* was not given; when a run ended FAIL or FAIL (Timeout) the directory is
\* still there.
C26_TestingDirDeletedIffAllPassed ==
    pc = "done" =>
        /\ ~testing_dir <=>
              /\ \A p \in 1..Len(classified) : classified[p] = "PASS"
              /\ ~args.keep_testing_dir
        /\ (\E p \in 1..Len(classified) : ContainsFAIL(classified[p])) => testing_dir

(***************************************************************************)
(* Properties of the finalization of a run.                                *)
(***************************************************************************)
\* The run a step of the loop over pids_to_remove finalizes, the status
\* recorded under its name, and its two capture files.
FinalizedInfo == InfoOf(Head(pids_to_remove))
FinalizedStatus == results[FinalizedInfo.name]
FinalizedStdoutPath == stdout_file_path(FinalizedInfo.name)
FinalizedStderrPath == stderr_file_path(FinalizedInfo.name)

C29_LaunchBeforeMonitoring ==
    /\ []((pc = "launch" /\ launched < Len(selected_tests_for_execution)) =>
             ENABLED Launch)
    /\ [](launched < Len(selected_tests_for_execution) => pc = "launch")
    /\ [](pc = "launch" =>
             /\ LivePids = 1..launched
             /\ \A p \in 1..launched : classified[p] = "RUNNING"
             /\ \A name \in DOMAIN results : results[name] = "RUNNING"
             /\ failure_reasons = EmptyDict
             /\ failure_logs = EmptyDict
             /\ poll_queue = <<>>
             /\ pids_to_remove = <<>>)
    /\ [][(IsPollStep \/ IsFinalizeStep) =>
             launched = Len(selected_tests_for_execution)]_vars
    /\ [][(pc = "launch" /\ pc' = "while") =>
             /\ Len(processes') = Len(selected_tests_for_execution)
             /\ \A i \in 1..Len(selected_tests_for_execution) :
                   /\ processes'[i].pid = i
                   /\ processes'[i].name = selected_tests_for_execution[i]
                   /\ results'[selected_tests_for_execution[i]] = "RUNNING"
                   /\ classified'[i] = "RUNNING"]_vars

\* Two tests are launched and the monitoring loop is about to begin; the
\* first child exited while the second was being launched and has not been
\* polled: it is in the live set with the status RUNNING.
C29_Witness ==
    /\ pc = "while"
    /\ launched = 2
    /\ Len(processes) = 2
    /\ ~proc[1].alive
    /\ classified = <<"RUNNING", "RUNNING">>
    /\ clock = processes[2].start_time

\* C30: in single mode with a valid number k exactly one test is selected
\* and exactly one child is launched, for the test with number k; when the
\* harness is done the report has NOT RUN for every other discovered test.
C30_SingleModeRunsOne ==
    \A k \in 1..Len(tests) :
        (/\ ModeDecided
         /\ ~args.list_tests
         /\ single_mode
         /\ selected_test_number = Some(Decimal(k))) =>
            /\ pc # "exited"
            /\ Len(selected_tests_for_execution) = 1
            /\ selected_tests_for_execution[1] = tests[k]
            /\ Len(proc) <= 1
            /\ pc \notin {"launch"} => Len(proc) = 1
            /\ pc = "done" =>
                  \A i \in 1..Len(tests) : i # k => report[i].result = "NOT RUN"

(***************************************************************************)
(* Properties of the live set.                                             *)
(***************************************************************************)
\* The selected tests, by their place, with a terminal status.
TerminalTests ==
    {i \in 1..Len(selected_tests_for_execution) :
        Get(results, selected_tests_for_execution[i], "NOT RUN") \in TerminalStatuses}

\* C31: with pairwise distinct test names, whenever the monitoring loop
\* tests its condition a selected test has the status RUNNING if and only
\* if the live set has a process for it, and the entries of the live set
\* and the tests with a terminal status together are as many as the selected
\* tests; when the loop has ended no selected test has the status RUNNING.
C31_RunningIffLive ==
    NamesDistinct =>
        /\ pc = "while" =>
              /\ \A i \in 1..Len(selected_tests_for_execution) :
                    Get(results, selected_tests_for_execution[i], "NOT RUN") = "RUNNING"
                       <=> \E j \in 1..Len(processes) :
                              processes[j].name = selected_tests_for_execution[i]
              /\ Len(processes) + Cardinality(TerminalTests) =
                    Len(selected_tests_for_execution)
        /\ pc \in {"summary", "done"} =>
              \A i \in 1..Len(selected_tests_for_execution) :
                 Get(results, selected_tests_for_execution[i], "NOT RUN") \in TerminalStatuses

\* At the start of an iteration, of two tests with different names one has
\* been finalized with a terminal status and the other is live and RUNNING.
C31_Witness ==
    /\ pc = "while"
    /\ NamesDistinct
    /\ Len(selected_tests_for_execution) = 2
    /\ Len(processes) = 1
    /\ Cardinality(TerminalTests) = 1
    /\ results[processes[1].name] = "RUNNING"

(***************************************************************************)
(* The model argument of the test children: how model_name is resolved and *)
(* what bash makes of run_test_logic '<model>'.                            *)
(***************************************************************************)
DEFAULT_MODEL == <<"d","e","e","p","i","n","f","r","a",":","Q","w","e","n","/","Q","w","e","n","2",".","5","-","C","o","d","e","r","-","3","2","B","-","I","n","s","t","r","u","c","t">>

\* str.startswith
StartsWith(s, prefix) == Len(prefix) <= Len(s) /\ SubSeq(s, 1, Len(prefix)) = prefix

\* select_model_for_test(test_name)
select_model_for_test(test_name) ==
    IF \/ StartsWith(test_name, <<"A","g","e","n","t"," ","v","2">>)
       \/ StartsWith(test_name, <<"P","r","o","c","e","s","s"," ","-">>)
       \/ test_name = <<"O","r","c","h","e","s","t","r","a","t","i","o","n"," ","F","e","a","t","u","r","e">>
    THEN <<"d","e","e","p","i","n","f","r","a",":","Q","w","e","n","3","-","2","3","5","B","-","A","2","2","B","-","T","h","i","n","k","i","n","g","-","2","5","0","7">>
    ELSE IF Contains(test_name, <<"O","l","l","a","m","a">>)
    THEN <<"o","l","l","a","m","a",":","q","w","e","n","2",".","5","-","c","o","d","e","r">>
    ELSE DEFAULT_MODEL

\* m of one config file: cfg.get('orchestration_model') or
\* cfg.get('editing_model') or cfg.get('SummaryModel') (an absent key and an
\* empty value are both falsy).
ConfigModel(cfg) ==
    IF cfg.orchestration_model # <<>> THEN cfg.orchestration_model
    ELSE IF cfg.editing_model # <<>> THEN cfg.editing_model
    ELSE cfg.SummaryModel

\* resolve_default_model() over the candidates from place i on: the first
\* config file with a model that is not blank gives it, stripped; without
\* one the result is DEFAULT_MODEL.
RECURSIVE ResolveFrom(_, _)
ResolveFrom(candidates, i) ==
    IF i > Len(candidates) THEN DEFAULT_MODEL
    ELSE IF candidates[i] # None /\ Strip(ConfigModel(candidates[i][1])) # <<>>
    THEN Strip(ConfigModel(candidates[i][1]))
    ELSE ResolveFrom(candidates, i + 1)

resolve_default_model == ResolveFrom(config, 1)

\* chosen_model = model_name if model_name else select_model_for_test(test_name)
chosen_model(test_name) ==
    IF model_name[1] # <<>> THEN model_name[1] ELSE select_model_for_test(test_name)

\* The words bash makes of a text: a single quote opens a quoted part that
\* runs to the next single quote, whitespace outside quotes ends a word;
\* None when a quoted part is not closed (bash: unexpected EOF while looking
\* for matching quote).
RECURSIVE ShellWordsFrom(_, _, _, _, _, _)
ShellWordsFrom(text, i, quoted, word, inword, words) ==
    IF i > Len(text)
    THEN IF quoted THEN None
         ELSE Some(IF inword THEN Append(words, word) ELSE words)
    ELSE IF quoted
    THEN IF text[i] = "'"
         THEN ShellWordsFrom(text, i + 1, FALSE, word, TRUE, words)
         ELSE ShellWordsFrom(text, i + 1, TRUE, Append(word, text[i]), TRUE, words)
    ELSE IF text[i] = "'"
    THEN ShellWordsFrom(text, i + 1, TRUE, word, TRUE, words)
    ELSE IF text[i] \in Whitespace
    THEN ShellWordsFrom(text, i + 1, FALSE, <<>>, FALSE,
                        IF inword THEN Append(words, word) ELSE words)
    ELSE ShellWordsFrom(text, i + 1, FALSE, Append(word, text[i]), TRUE, words)

\* The arguments of run_test_logic in cmd = f"... && run_test_logic
\* '{chosen_model}'", run by Popen(cmd, shell=True, executable='/bin/bash').
RunTestLogicArgs(model) ==
    ShellWordsFrom(<<"'">> \o model \o <<"'">>, 1, FALSE, <<>>, FALSE, <<>>)

\* The -m values, the config files and the selected tests the model tries.
CliModels == {<<>>, <<"m">>, <<" ">>, <<"m", " ", "x">>, <<"m", "'", "x">>, <<"m", "'", " ", "'", "x">>}
ConfigFiles ==
    {None} \cup
    {Some(cfg) : cfg \in [orchestration_model : {<<>>, <<" ">>, <<"o">>},
                          editing_model : {<<>>, <<"e", " ">>},
                          SummaryModel : {<<>>, <<"s">>}]}
ModelTestNames == {<<"t">>, <<"O","l","l","a","m","a">>, <<"O","r","c","h","e","s","t","r","a","t","i","o","n"," ","F","e","a","t","u","r","e">>}

\* model_name = args.model if args.model else resolve_default_model()
ResolveModel ==
    /\ mpc = "resolve"
    /\ model_name' = Some(IF cli_model # <<>> THEN cli_model ELSE resolve_default_model)
    /\ mpc' = "launch"
    /\ UNCHANGED <<cli_model, config, mtests, child_argv>>
    /\ UNCHANGED <<hvars, dvars, svars, rvars, wvars, cvars, vvars>>

\* One turn of the launch loop, as far as the command of the child goes.
LaunchChild ==
    /\ mpc = "launch"
    /\ Len(child_argv) < Len(mtests)
    /\ child_argv' = Append(child_argv,
                            RunTestLogicArgs(chosen_model(mtests[Len(child_argv) + 1])))
    /\ UNCHANGED <<cli_model, config, model_name, mtests, mpc>>
    /\ UNCHANGED <<hvars, dvars, svars, rvars, wvars, cvars, vvars>>

\* The launch loop is over.
LaunchChildDone ==
    /\ mpc = "launch"
    /\ Len(child_argv) = Len(mtests)
    /\ mpc' = "done"
    /\ UNCHANGED <<cli_model, config, model_name, mtests, child_argv>>
    /\ UNCHANGED <<hvars, dvars, svars, rvars, wvars, cvars, vvars>>

ModelInit ==
    /\ HarnessOff
    /\ DiagnosisOff
    /\ RunnerOff
    /\ WorkflowOff
    /\ ConvertOff
    /\ ValidateOff
    /\ cli_model \in CliModels
    /\ config \in [1..2 -> ConfigFiles]
    /\ model_name = None
    /\ mtests \in UNION {[1..n -> ModelTestNames] : n \in 1..MaxTests}
    /\ child_argv = <<>>
    /\ mpc = "resolve"

ModelNext ==
    \/ ResolveModel
    \/ LaunchChild
    \/ LaunchChildDone

ModelSpec == ModelInit /\ [][ModelNext]_vars

\* The models resolve_default_model can return for the config files.
ConfiguredModels ==
    {DEFAULT_MODEL} \cup
    {Strip(m) : m \in {<<" ">>, <<"o">>, <<"e", " ">>, <<"s">>}}

\* C32: every test child of one run is launched with one argument, the
\* same model string for all: the -m value when one was given, otherwise the
\* model resolved from the config files or the built-in default; what
\* select_model_for_test gives for the name of a test plays no part.
C32_SameModelForEveryChild ==
    mpc \in {"launch", "done"} =>
        /\ cli_model # <<>> => model_name = Some(cli_model)
        /\ cli_model = <<>> => model_name[1] \in ConfiguredModels \ {<<>>}
        /\ \A i \in 1..Len(child_argv) : child_argv[i] = Some(<<model_name[1]>>)

\* A model string without a single quote.
NoQuote(model) == \A i \in 1..Len(model) : model[i] # "'"

(***************************************************************************)
(* The loop over all tests of the sequential runners.                      *)
(***************************************************************************)
\* The runner went into its loop over all tests.
AllTestsMode ==
    /\ runner \in {"integration", "e2e"}
    /\ ~rargs.list
    /\ NotArgsTest
    /\ rpc \in {"all", "exited"}
    /\ IF runner = "integration"
       THEN ~(~renv.ledit_exists /\ BuildFailed)
       ELSE rargs.yes \/ LowerChar(renv.response) = "y"

\* passed and failed, as the loop counts them: one of the two per test run.
PassedCount == Cardinality({i \in 1..Len(ran) : ran[i].outcome = "exit 0"})
FailedCount == Cardinality({i \in 1..Len(ran) : ran[i].outcome # "exit 0"})

\* C33: in the all-tests mode of the sequential runners the tests are run
\* one at a time in sorted order, each is counted once as passed or failed
\* (a timeout or an exception is a failure and the remaining tests still
\* run), at the end passed + failed is the number of discovered tests, and
\* the runner exits 0 exactly when failed is 0.
C33_EveryTestCountedOnce ==
    AllTestsMode =>
        /\ Len(ran) <= Len(rtests)
        /\ \A i \in 1..Len(ran) : ran[i].test = rtests[i]
        /\ rpc = "exited" =>
              /\ Len(ran) = Len(rtests)
              /\ PassedCount + FailedCount = Len(rtests)
              /\ rexit = 0 <=> FailedCount = 0

(***************************************************************************)
(* examples/iterative_sdlc.py: SDLCManager.run_workflow and run_phase.     *)
(***************************************************************************)
MaxPhaseIterations == 2
MaxGlobalIterations == 4

\* The phases of a configuration: the names of TASK_CONFIG in its order,
\* any of them left out; the planning phase has a plan file.
PhaseOf(name, evaluation_type) ==
    [name |-> name, evaluation_type |-> evaluation_type,
     plan_file |-> name = "planning", completed |-> FALSE]
PlanningPhases == {PhaseOf("planning", e) : e \in {"file_check", "agent_eval"}}
ImplementationPhases == {PhaseOf("implementation", e) : e \in {"multi", "build"}}
TestingPhases == {PhaseOf("testing", "test")}
PhaseLists ==
    {<<p>> : p \in PlanningPhases \cup ImplementationPhases \cup TestingPhases}
    \cup (PlanningPhases \X ImplementationPhases)
    \cup (PlanningPhases \X TestingPhases)
    \cup (ImplementationPhases \X TestingPhases)
    \cup (PlanningPhases \X ImplementationPhases \X TestingPhases)

\* What evaluate_phase can return for a phase: success, whether an issue
\* of severity blocker is among the issues, and should_revisit. A failed
\* build gives blocker issues only, failed tests give critical ones, a
\* failed file check one blocker.
evaluate_phase(phase) ==
    CASE phase.evaluation_type = "build" ->
            {[success |-> TRUE, blocker |-> FALSE, should_revisit |-> <<>>],
             [success |-> FALSE, blocker |-> TRUE,
              should_revisit |-> <<"implementation">>]}
      [] phase.evaluation_type = "test" ->
            {[success |-> TRUE, blocker |-> FALSE, should_revisit |-> <<>>],
             [success |-> FALSE, blocker |-> FALSE,
              should_revisit |-> <<"implementation", "testing">>]}
      [] phase.evaluation_type = "file_check" ->
            {[success |-> TRUE, blocker |-> FALSE, should_revisit |-> <<>>],
             [success |-> FALSE, blocker |-> TRUE, should_revisit |-> <<>>]}
      [] phase.evaluation_type = "multi" ->
            {[success |-> build_ok /\ test_ok, blocker |-> ~build_ok,
              should_revisit |-> IF build_ok /\ test_ok THEN <<>>
                                 ELSE <<"implementation", "testing">>] :
                build_ok \in BOOLEAN, test_ok \in BOOLEAN}
      [] OTHER -> {}

\* evaluate_phase can raise: for another evaluation type success is never
\* assigned (UnboundLocalError at the return), and with an existing plan
\* file and no deferred todo in the output _check_plan_adherence calls
\* search on a str (AttributeError).
EvaluationRaises(phase) ==
    \/ phase.evaluation_type \notin {"build", "test", "file_check", "multi"}
    \/ phase.plan_file

\* phase.name in [r.phase for r in self.results if r.success]
AlreadySucceeded(name) ==
    \E i \in 1..Len(workflow_results) :
        workflow_results[i].phase = name /\ workflow_results[i].success

\* A slip: the loop of run_phase lets one iteration too many through.
PhaseLoopGuardOffByOne ==
    iteration <= max_iterations /\ global_iteration < max_global_iterations

\* while iteration < self.max_iterations and
\*       self.global_iteration < self.max_global_iterations
PhaseLoopGuard ==
    iteration < max_iterations /\ global_iteration < max_global_iterations

\* while self.global_iteration < self.max_global_iterations: the next cycle
\* over the phases begins, or run_workflow returns.
WhileTest ==
    /\ wpc = "while"
    /\ IF global_iteration < max_global_iterations
       THEN wpc' = "for" /\ phase_index' = 1
       ELSE wpc' = "returned" /\ UNCHANGED phase_index
    /\ UNCHANGED <<phases, max_iterations, max_global_iterations, critical_phases,
                   global_iteration, workflow_results, phases_to_revisit,
                   iteration, should_revisit, evals>>
    /\ UNCHANGED <<hvars, dvars, svars, rvars, mvars, cvars, vvars>>

\* The for loop comes to a phase that has a successful result: continue.
ForSkip ==
    /\ wpc = "for"
    /\ phase_index <= Len(phases)
    /\ AlreadySucceeded(phases[phase_index].name)
    /\ phase_index' = phase_index + 1
    /\ UNCHANGED <<phases, max_iterations, max_global_iterations, critical_phases,
                   global_iteration, workflow_results, phases_to_revisit,
                   iteration, should_revisit, evals, wpc>>
    /\ UNCHANGED <<hvars, dvars, svars, rvars, mvars, cvars, vvars>>

\* The for loop calls run_phase for a phase without a successful result.
ForRunPhase ==
    /\ wpc = "for"
    /\ phase_index <= Len(phases)
    /\ ~AlreadySucceeded(phases[phase_index].name)
    /\ iteration' = 0
    /\ should_revisit' = <<>>
    /\ evals' = <<>>
    /\ wpc' = "run_phase"
    /\ UNCHANGED <<phases, max_iterations, max_global_iterations, critical_phases,
                   global_iteration, workflow_results, phases_to_revisit,
                   phase_index>>
    /\ UNCHANGED <<hvars, dvars, svars, rvars, mvars, cvars, vvars>>

\* The for loop is through the phases.
ForEnd ==
    /\ wpc = "for"
    /\ phase_index > Len(phases)
    /\ wpc' = "after_for"
    /\ UNCHANGED <<phases, max_iterations, max_global_iterations, critical_phases,
                   global_iteration, workflow_results, phases_to_revisit,
                   phase_index, iteration, should_revisit, evals>>
    /\ UNCHANGED <<hvars, dvars, svars, rvars, mvars, cvars, vvars>>

\* run_phase returns result to run_workflow: the result is appended, its
\* should_revisit is added to phases_to_revisit, and the failure of a
\* critical phase breaks the for loop.
PhaseReturns(result) ==
    /\ workflow_results' = Append(workflow_results, result)
    /\ phases_to_revisit' = phases_to_revisit \cup Range(result.should_revisit)
    /\ IF ~result.success /\ result.phase \in critical_phases
       THEN wpc' = "after_for" /\ UNCHANGED phase_index
       ELSE wpc' = "for" /\ phase_index' = phase_index + 1

\* One iteration of run_phase: the agent runs, its output is evaluated. A
\* success marks the phase completed and returns success=True; a failure
\* with a blocker issue breaks the loop and returns success=False; any other
\* failure goes to the next test of the loop condition.
PhaseIteration ==
    /\ wpc = "run_phase"
    /\ PhaseLoopGuard
    /\ iteration' = iteration + 1
    /\ global_iteration' = global_iteration + 1
    /\ \E outcome \in evaluate_phase(phases[phase_index]) :
          /\ evals' = Append(evals, outcome)
          /\ should_revisit' = outcome.should_revisit
          /\ IF outcome.success
             THEN /\ phases' = [phases EXCEPT ![phase_index].completed = TRUE]
                  /\ PhaseReturns([phase |-> phases[phase_index].name,
                                   iteration |-> iteration', success |-> TRUE,
                                   should_revisit |-> <<>>])
             ELSE /\ UNCHANGED phases
                  /\ IF outcome.blocker
                     THEN PhaseReturns([phase |-> phases[phase_index].name,
                                        iteration |-> iteration', success |-> FALSE,
                                        should_revisit |-> should_revisit'])
                     ELSE UNCHANGED <<workflow_results, phases_to_revisit,
                                      phase_index, wpc>>
    /\ UNCHANGED <<max_iterations, max_global_iterations, critical_phases>>
    /\ UNCHANGED <<hvars, dvars, svars, rvars, mvars, cvars, vvars>>

\* An iteration of run_phase in which evaluate_phase raises: the exception
\* leaves run_phase and run_workflow.
PhaseIterationRaises ==
    /\ wpc = "run_phase"
    /\ PhaseLoopGuard
    /\ EvaluationRaises(phases[phase_index])
    /\ iteration' = iteration + 1
    /\ global_iteration' = global_iteration + 1
    /\ wpc' = "raised"
    /\ UNCHANGED <<phases, max_iterations, max_global_iterations, critical_phases,
                   workflow_results, phases_to_revisit, phase_index,
                   should_revisit, evals>>
    /\ UNCHANGED <<hvars, dvars, svars, rvars, mvars, cvars, vvars>>

\* The loop condition of run_phase is false: success=False is returned with
\* the should_revisit of the last evaluation.
PhaseExhausted ==
    /\ wpc = "run_phase"
    /\ ~PhaseLoopGuard
    /\ PhaseReturns([phase |-> phases[phase_index].name, iteration |-> iteration,
                     success |-> FALSE, should_revisit |-> should_revisit])
    /\ UNCHANGED <<phases, max_iterations, max_global_iterations, critical_phases,
                   global_iteration, iteration, should_revisit, evals>>
    /\ UNCHANGED <<hvars, dvars, svars, rvars, mvars, cvars, vvars>>

\* The phases the reset reaches: named for a revisit and with a result.
ResetPhases ==
    {workflow_results[i].phase : i \in 1..Len(workflow_results)} \cap phases_to_revisit

\* After the for loop: with phases to revisit their completed flags are
\* reset and the list is emptied; otherwise run_workflow returns when every
\* phase is completed; in both other cases the while loop goes on.
AfterFor ==
    /\ wpc = "after_for"
    /\ IF phases_to_revisit # {}
       THEN /\ phases' = [i \in 1..Len(phases) |->
                            IF phases[i].name \in ResetPhases
                            THEN [phases[i] EXCEPT !.completed = FALSE]
                            ELSE phases[i]]
            /\ phases_to_revisit' = {}
            /\ wpc' = "while"
       ELSE /\ UNCHANGED <<phases, phases_to_revisit>>
            /\ wpc' = IF \A i \in 1..Len(phases) : phases[i].completed
                      THEN "returned" ELSE "while"
    /\ UNCHANGED <<max_iterations, max_global_iterations, critical_phases,
                   global_iteration, workflow_results, phase_index,
                   iteration, should_revisit, evals>>
    /\ UNCHANGED <<hvars, dvars, svars, rvars, mvars, cvars, vvars>>

WorkflowInit ==
    /\ HarnessOff
    /\ DiagnosisOff
    /\ RunnerOff
    /\ ModelOff
    /\ ConvertOff
    /\ ValidateOff
    /\ phases \in PhaseLists
    /\ max_iterations \in 1..MaxPhaseIterations
    /\ max_global_iterations \in 0..MaxGlobalIterations
    /\ critical_phases \in {{}, {"planning", "implementation"}, {"testing"}}
    /\ global_iteration = 0
    /\ workflow_results = <<>>
    /\ phases_to_revisit = {}
    /\ phase_index = 0
    /\ iteration = 0
    /\ should_revisit = <<>>
    /\ evals = <<>>
    /\ wpc = "while"

WorkflowNext ==
    \/ WhileTest
    \/ ForSkip
    \/ ForRunPhase
    \/ ForEnd
    \/ PhaseIteration
    \/ PhaseIterationRaises
    \/ PhaseExhausted
    \/ AfterFor

WorkflowSpec == WorkflowInit /\ [][WorkflowNext]_vars

\* run_workflow is one thread of one process: while it has not returned or
\* raised it takes its next step (the agent and the evaluations are
\* subprocesses that end or time out).
FairWorkflowSpec == WorkflowSpec /\ WF_vars(WorkflowNext)

\* C34: run_workflow terminates whatever the evaluations give: it returns
\* (or is left by an exception), having run at most max_global_iterations
\* agent iterations.
C34_WorkflowTerminates ==
    <>(wpc \in {"returned", "raised"} /\ global_iteration <= max_global_iterations)

\* The for loop passes over a phase.
PhaseSkipped ==
    /\ wpc = "for"
    /\ wpc' = "for"
    /\ phase_index <= Len(phases)
    /\ phase_index' = phase_index + 1
    /\ workflow_results' = workflow_results

\* C35: the cycle revisits phases: when the result of a failed phase names
\* a phase to revisit, the completed flag of the named phase is reset and
\* the phase is run again in the next cycle even if it had succeeded before:
\* the for loop passes over no phase whose completed flag is not set.
C35_RevisitedPhaseRunsAgain ==
    /\ [][(wpc = "after_for" /\ wpc' = "while") =>
             \A i \in 1..Len(phases) :
                 phases[i].name \in phases_to_revisit => ~phases'[i].completed]_vars
    /\ [][PhaseSkipped => phases[phase_index].completed]_vars

\* A critical phase has failed: a result with success=False of a phase in
\* critical_phases.
CriticalPhaseFailed ==
    \E i \in 1..Len(workflow_results) :
        /\ ~workflow_results[i].success
        /\ workflow_results[i].phase \in critical_phases

\* C36: once run_phase has returned success=False for a critical phase,
\* run_workflow executes no further iteration of any phase.
C36_CriticalFailureStops ==
    [][CriticalPhaseFailed => global_iteration' = global_iteration]_vars

\* run_phase returns to run_workflow in this step.
RunPhaseReturns == wpc = "run_phase" /\ wpc' \in {"for", "after_for"}

\* C37: global_iteration never exceeds max_global_iterations and the
\* iteration counter of run_phase never exceeds max_iterations; run_phase
\* goes on to another iteration only after a failed evaluation without a
\* blocker issue, a successful evaluation returns success=True with the
\* phase marked completed, and success=True is returned only when an
\* evaluation of the call succeeded.
C37_PhaseIterationBounds ==
    /\ [](/\ global_iteration <= max_global_iterations
          /\ iteration <= max_iterations
          /\ \A i \in 1..Len(evals) :
                (i < Len(evals) \/ wpc = "run_phase") =>
                    ~evals[i].success /\ ~evals[i].blocker)
    /\ [][RunPhaseReturns =>
             LET result == workflow_results'[Len(workflow_results')]
             IN  /\ result.iteration = iteration'
                 /\ result.success => \E i \in 1..Len(evals') : evals'[i].success
                 /\ (evals' # <<>> /\ evals'[Len(evals')].success) =>
                        result.success /\ phases'[phase_index].completed]_vars

\* run_phase has returned success=True from its second iteration, after a
\* failed evaluation without a blocker.
C37_Witness ==
    /\ wpc \in {"for", "after_for"}
    /\ Len(evals) = 2
    /\ ~evals[1].success
    /\ evals[2].success
    /\ workflow_results # <<>>
    /\ workflow_results[Len(workflow_results)].success
    /\ workflow_results[Len(workflow_results)].iteration = 2
    /\ global_iteration = max_global_iterations

(***************************************************************************)
(* examples/typescript-conversion/convert_to_ts.py: the batch loop of      *)
(* main. The files are numbered; a conversion succeeds, fails or raises.   *)
(***************************************************************************)
MaxFiles == 3
batch_size == 30
max_fix_attempts == 2

\* files_to_process[:batch_size] and files_to_process[batch_size:]
TakeBatch(fs) == SubSeq(fs, 1, IF Len(fs) < batch_size THEN Len(fs) ELSE batch_size)
AfterBatch(fs) == SubSeq(fs, batch_size + 1, Len(fs))

\* How the future of one file ends: process_file_to_typescript returns True
\* or False, or future.result() raises.
ConversionOutcomes == {"converted", "failed", "raised"}

\* How one turn of the build/fix loop goes.
TscOutcomes == {"tsc not found", "no errors", "errors, parsed", "errors, parse failed"}

\* if not initial_files: return; otherwise the batch loop begins.
ConvertStart ==
    /\ cpc = "start"
    /\ cpc' = IF files_to_process = <<>> THEN "done" ELSE "while"
    /\ UNCHANGED <<files_to_process, current_batch, pending, successful_conversions,
                   failed_conversions, batch_num, batch_successful_count,
                   fix_attempt_count, build_successful, tsc_runs>>
    /\ UNCHANGED <<hvars, dvars, svars, rvars, mvars, wvars, vvars>>

\* while files_to_process: a batch is taken off the list and its files are
\* submitted to the executor.
BatchStart ==
    /\ cpc = "while"
    /\ files_to_process # <<>>
    /\ batch_num' = batch_num + 1
    /\ current_batch' = TakeBatch(files_to_process)
    /\ files_to_process' = AfterBatch(files_to_process)
    /\ batch_successful_count' = 0
    /\ pending' = Range(current_batch')
    /\ cpc' = "collect"
    /\ UNCHANGED <<successful_conversions, failed_conversions, fix_attempt_count,
                   build_successful, tsc_runs>>
    /\ UNCHANGED <<hvars, dvars, svars, rvars, mvars, wvars, vvars>>

\* while files_to_process: the list is empty, the loop is over.
BatchLoopOver ==
    /\ cpc = "while"
    /\ files_to_process = <<>>
    /\ cpc' = "done"
    /\ UNCHANGED <<files_to_process, current_batch, pending, successful_conversions,
                   failed_conversions, batch_num, batch_successful_count,
                   fix_attempt_count, build_successful, tsc_runs>>
    /\ UNCHANGED <<hvars, dvars, svars, rvars, mvars, wvars, vvars>>

\* files_to_process.append(file_path): a failed file goes back on the list.
Requeue(fs, file_path) == Append(fs, file_path)

\* for future in as_completed(...): the next future to complete, in any
\* order; a converted file is counted, any other is put back on the list.
CollectFuture ==
    /\ cpc = "collect"
    /\ \E file_path \in pending, outcome \in ConversionOutcomes :
          /\ pending' = pending \ {file_path}
          /\ IF outcome = "converted"
             THEN /\ successful_conversions' = Append(successful_conversions, file_path)
                  /\ batch_successful_count' = batch_successful_count + 1
                  /\ UNCHANGED <<failed_conversions, files_to_process>>
             ELSE /\ failed_conversions' = Append(failed_conversions, file_path)
                  /\ files_to_process' = Requeue(files_to_process, file_path)
                  /\ UNCHANGED <<successful_conversions, batch_successful_count>>
    /\ UNCHANGED <<current_batch, batch_num, fix_attempt_count, build_successful,
                   tsc_runs, cpc>>
    /\ UNCHANGED <<hvars, dvars, svars, rvars, mvars, wvars, vvars>>

\* Every future of the batch has completed: the build/fix loop begins.
BuildStart ==
    /\ cpc = "collect"
    /\ pending = {}
    /\ fix_attempt_count' = 0
    /\ build_successful' = FALSE
    /\ tsc_runs' = 0
    /\ cpc' = "build"
    /\ UNCHANGED <<files_to_process, current_batch, pending, successful_conversions,
                   failed_conversions, batch_num, batch_successful_count>>
    /\ UNCHANGED <<hvars, dvars, svars, rvars, mvars, wvars, vvars>>

\* A slip: one fix attempt too many.
FixLoopGuardOffByOne == ~build_successful /\ fix_attempt_count <= max_fix_attempts

\* while not build_successful and fix_attempt_count < max_fix_attempts
FixLoopGuard == ~build_successful /\ fix_attempt_count < max_fix_attempts

\* One turn of the build/fix loop: tsc is run (without a tsc command the
\* loop is left); with errors parse_tsc_errors.py is run and the attempt is
\* counted, unless that fails, which leaves the loop; without errors the
\* build is successful.
BuildAttempt ==
    /\ cpc = "build"
    /\ FixLoopGuard
    /\ \E outcome \in TscOutcomes :
          /\ tsc_runs' = IF outcome = "tsc not found" THEN tsc_runs ELSE tsc_runs + 1
          /\ build_successful' = (outcome = "no errors")
          /\ fix_attempt_count' = IF outcome = "errors, parsed"
                                  THEN fix_attempt_count + 1 ELSE fix_attempt_count
          /\ cpc' = IF outcome \in {"tsc not found", "errors, parse failed"}
                    THEN "check" ELSE "build"
    /\ UNCHANGED <<files_to_process, current_batch, pending, successful_conversions,
                   failed_conversions, batch_num, batch_successful_count>>
    /\ UNCHANGED <<hvars, dvars, svars, rvars, mvars, wvars, vvars>>

\* The condition of the build/fix loop is false.
BuildLoopOver ==
    /\ cpc = "build"
    /\ ~FixLoopGuard
    /\ cpc' = "check"
    /\ UNCHANGED <<files_to_process, current_batch, pending, successful_conversions,
                   failed_conversions, batch_num, batch_successful_count,
                   fix_attempt_count, build_successful, tsc_runs>>
    /\ UNCHANGED <<hvars, dvars, svars, rvars, mvars, wvars, vvars>>

\* The batch made no progress: no file of it was converted and files remain.
NoProgress ==
    Len(current_batch) > 0 /\ batch_successful_count = 0 /\ Len(files_to_process) > 0

\* The end of a turn of the batch loop: break without progress, otherwise
\* back to the loop condition.
ProgressCheck ==
    /\ cpc = "check"
    /\ cpc' = IF NoProgress THEN "done" ELSE "while"
    /\ UNCHANGED <<files_to_process, current_batch, pending, successful_conversions,
                   failed_conversions, batch_num, batch_successful_count,
                   fix_attempt_count, build_successful, tsc_runs>>
    /\ UNCHANGED <<hvars, dvars, svars, rvars, mvars, wvars, vvars>>

ConvertInit ==
    /\ HarnessOff
    /\ DiagnosisOff
    /\ RunnerOff
    /\ ModelOff
    /\ WorkflowOff
    /\ ValidateOff
    /\ files_to_process \in {[i \in 1..n |-> i] : n \in 0..MaxFiles}
    /\ current_batch = <<>>
    /\ pending = {}
    /\ successful_conversions = <<>>
    /\ failed_conversions = <<>>
    /\ batch_num = 0
    /\ batch_successful_count = 0
    /\ fix_attempt_count = 0
    /\ build_successful = FALSE
    /\ tsc_runs = 0
    /\ cpc = "start"

ConvertNext ==
    \/ ConvertStart
    \/ BatchStart
    \/ BatchLoopOver
    \/ CollectFuture
    \/ BuildStart
    \/ BuildAttempt
    \/ BuildLoopOver
    \/ ProgressCheck

ConvertSpec == ConvertInit /\ [][ConvertNext]_vars

\* main is one thread that waits for its futures and subprocesses, each of
\* which ends: while the loop is not over its next step is taken.
FairConvertSpec == ConvertSpec /\ WF_vars(ConvertNext)

\* A future of the batch completes without a conversion.
FileFails == cpc = "collect" /\ failed_conversions' # failed_conversions

\* C38: the batch loop ends whatever the conversions give; a failed file is
\* put back at the end of files_to_process, for a later batch; the loop is
\* left at the end of a batch without a successful conversion when files
\* remain, so a next batch begins only after a conversion or never; and tsc
\* runs at most max_fix_attempts times per batch.
C38_BatchLoopTerminates ==
    /\ <>(cpc = "done")
    /\ [][FileFails =>
             files_to_process' =
                 Append(files_to_process, failed_conversions'[Len(failed_conversions')])]_vars
    /\ [][(cpc = "check" /\ batch_successful_count = 0 /\ files_to_process # <<>>) =>
             cpc' = "done"]_vars
    /\ [](cpc = "while" /\ batch_num > 0 /\ files_to_process # <<>> =>
             batch_successful_count > 0)
    /\ [](tsc_runs <= max_fix_attempts)

\* A second batch is over: the file that failed in the first batch was
\* converted in the second, and tsc ran twice in this batch.
C38_Witness ==
    /\ cpc = "done"
    /\ batch_num = 2
    /\ failed_conversions # <<>>
    /\ failed_conversions[1] \in Range(successful_conversions)
    /\ tsc_runs = 2

(***************************************************************************)
(* examples/typescript-conversion/validate_ts_conversion.py:               *)
(* process_single_file from its ledit loop on. The stdout of ledit is the  *)
(* sequence of its lines.                                                  *)
(***************************************************************************)
max_ledit_retries == 2

StatusPrefix == <<"S","t","a","t","u","s",":">>
ReasonPrefix == <<"R","e","a","s","o","n",":">>
RecommendationPrefix == <<"R","e","c","o","m","m","e","n","d","a","t","i","o","n",":">>
Unknown == <<"U","n","k","n","o","w","n">>
NoReasonProvided == <<"N","o"," ","s","p","e","c","i","f","i","c"," ","r","e","a","s","o","n"," ","p","r","o","v","i","d","e","d"," ","b","y"," ","l","e","d","i","t"," ","o","u","t","p","u","t",".">>
NoRecommendationProvided == <<"N","o"," ","r","e","c","o","m","m","e","n","d","a","t","i","o","n"," ","p","r","o","v","i","d","e","d",".">>
LeditCommandFailed == <<"L","e","d","i","t"," ","C","o","m","m","a","n","d"," ","F","a","i","l","e","d">>
NoLeditOutput == <<"M","a","n","u","a","l"," ","C","h","e","c","k"," ","R","e","q","u","i","r","e","d"," ","(","N","o"," ","L","e","d","i","t"," ","O","u","t","p","u","t",")">>
EmptyOutputReason == <<"L","e","d","i","t"," ","r","e","t","u","r","n","e","d"," ","e","m","p","t","y"," ","o","u","t","p","u","t","."," ","U","s","e","r"," ","m","i","g","h","t"," ","h","a","v","e"," ","e","x","i","t","e","d"," ","w","i","t","h","o","u","t"," ","p","r","o","v","i","d","i","n","g"," ","i","n","p","u","t",".">>
LeditOutputParseError == <<"M","a","n","u","a","l"," ","C","h","e","c","k"," ","R","e","q","u","i","r","e","d"," ","(","L","e","d","i","t"," ","O","u","t","p","u","t"," ","P","a","r","s","e"," ","E","r","r","o","r",")">>
Success == <<"s","u","c","c","e","s","s">>

\* The lines ledit prints in the model, and its outputs: up to two of them
\* in any order, and some of three.
LeditLines ==
    {<<"S","t","a","t","u","s",":"," ","S","u","c","c","e","s","s">>,
     <<"S","t","a","t","u","s",":"," ","M","a","n","u","a","l"," ","C","h","e","c","k"," ","R","e","q","u","i","r","e","d">>,
     <<"R","e","a","s","o","n",":"," ","r">>,
     <<"R","e","a","s","o","n",":">>,
     <<"R","e","c","o","m","m","e","n","d","a","t","i","o","n",":"," ","c">>,
     <<" "," ","s","t","a","t","u","s",":"," ","x">>,
     <<"R","e","c","o","m","m","e","n","d","a","t","i","o","n",":"," ","N","o"," ","r","e","c","o","m","m","e","n","d","a","t","i","o","n"," ","p","r","o","v","i","d","e","d",".">>,
     <<" ">>,
     <<"x">>}
ManualWithReasonAndRecommendation ==
    <<<<"S","t","a","t","u","s",":"," ","M","a","n","u","a","l"," ","C","h","e","c","k"," ","R","e","q","u","i","r","e","d">>, <<"R","e","a","s","o","n",":"," ","r">>, <<"R","e","c","o","m","m","e","n","d","a","t","i","o","n",":"," ","c">>>>
LeditOutputs ==
    {<<>>} \cup {<<a>> : a \in LeditLines} \cup (LeditLines \X LeditLines)
    \cup {ManualWithReasonAndRecommendation,
          <<<<"S","t","a","t","u","s",":"," ","M","a","n","u","a","l"," ","C","h","e","c","k"," ","R","e","q","u","i","r","e","d">>, <<"R","e","a","s","o","n",":"," ","r">>, <<"R","e","c","o","m","m","e","n","d","a","t","i","o","n",":"," ","N","o"," ","r","e","c","o","m","m","e","n","d","a","t","i","o","n"," ","p","r","o","v","i","d","e","d",".">>>>,
          <<<<"S","t","a","t","u","s",":"," ","M","a","n","u","a","l"," ","C","h","e","c","k"," ","R","e","q","u","i","r","e","d">>, <<"R","e","a","s","o","n",":">>, <<"R","e","c","o","m","m","e","n","d","a","t","i","o","n",":"," ","c">>>>,
          <<<<" "," ","s","t","a","t","u","s",":"," ","x">>, <<"x">>, <<" ">>>>}

\* The lines joined by newlines.
RECURSIVE JoinLines(_)
JoinLines(lines) ==
    IF lines = <<>> THEN <<>>
    ELSE IF Len(lines) = 1 THEN lines[1]
    ELSE lines[1] \o <<"\n">> \o JoinLines(Tail(lines))

\* ledit_output = ledit_result.stdout.strip()
LeditOutput(stdout) == Strip(JoinLines(stdout))

\* The value after a prefix: line.strip()[len(prefix):].strip()
ValueAfter(line, prefix) == Strip(SubSeq(Strip(line), Len(prefix) + 1, Len(Strip(line))))

\* The loop over the lines of the output from place i on: a line that
\* starts with Status:, Reason: or Recommendation: sets the value and its
\* found flag, later lines overwrite earlier ones.
RECURSIVE ParseFrom(_, _, _)
ParseFrom(lines, i, parsed) ==
    IF i > Len(lines) THEN parsed
    ELSE IF StartsWith(Strip(lines[i]), StatusPrefix)
    THEN ParseFrom(lines, i + 1,
                   [parsed EXCEPT !.status = ValueAfter(lines[i], StatusPrefix),
                                  !.found_status = TRUE])
    ELSE IF StartsWith(Strip(lines[i]), ReasonPrefix)
    THEN ParseFrom(lines, i + 1,
                   [parsed EXCEPT !.reason = ValueAfter(lines[i], ReasonPrefix),
                                  !.found_reason = TRUE])
    ELSE IF StartsWith(Strip(lines[i]), RecommendationPrefix)
    THEN ParseFrom(lines, i + 1,
                   [parsed EXCEPT !.recommendation =
                                      ValueAfter(lines[i], RecommendationPrefix),
                                  !.found_recommendation = TRUE])
    ELSE ParseFrom(lines, i + 1, parsed)

\* The reason or the recommendation is missing, empty or the default text.
LacksReasonOrRecommendation(parsed) ==
    \/ ~parsed.found_reason
    \/ Strip(parsed.reason) = <<>>
    \/ parsed.reason = NoReasonProvided
    \/ ~parsed.found_recommendation
    \/ Strip(parsed.recommendation) = <<>>
    \/ parsed.recommendation = NoRecommendationProvided

\* The retry condition: the status is not success and the reason or the
\* recommendation is missing.
RetryCondition(parsed) ==
    Lower(parsed.status) # Success /\ LacksReasonOrRecommendation(parsed)

\* f"Ledit exited with code {returncode}. Stderr: {ledit_error or 'None'}."
CommandFailedReason(code, err) ==
    <<"L","e","d","i","t"," ","e","x","i","t","e","d"," ","w","i","t","h"," ","c","o","d","e"," ">> \o Decimal(code) \o <<"."," ","S","t","d","e","r","r",":"," ">>
    \o (IF err # <<>> THEN err ELSE <<"N","o","n","e">>) \o <<".">>

\* f"Could not parse status/reason from ledit output after 3 attempts. Raw
\* output: {ledit_output}"
ParseErrorReason(stdout) ==
    <<"C","o","u","l","d"," ","n","o","t"," ","p","a","r","s","e"," ","s","t","a","t","u","s","/","r","e","a","s","o","n"," ","f","r","o","m"," ","l","e","d","i","t"," ","o","u","t","p","u","t"," ","a","f","t","e","r"," ">> \o Decimal(max_ledit_retries + 1)
    \o <<" ","a","t","t","e","m","p","t","s","."," ","R","a","w"," ","o","u","t","p","u","t",":"," ">> \o LeditOutput(stdout)

\* A slip: one attempt more.
AttemptsOneMore == max_ledit_retries + 2

\* range(max_ledit_retries + 1)
Attempts == max_ledit_retries + 1

\* What the loop holds of the values parsed so far.
Parsed ==
    [status |-> status_from_ledit, reason |-> reason_from_ledit,
     recommendation |-> recommendation_from_ledit,
     found_status |-> found_status, found_reason |-> found_reason,
     found_recommendation |-> found_recommendation]

\* The loop variables take the values of parsed.
SetParsed(parsed) ==
    /\ status_from_ledit' = parsed.status
    /\ reason_from_ledit' = parsed.reason
    /\ recommendation_from_ledit' = parsed.recommendation
    /\ found_status' = parsed.found_status
    /\ found_reason' = parsed.found_reason
    /\ found_recommendation' = parsed.found_recommendation

\* The next turn of the for loop, or its end after the last attempt.
NextAttempt ==
    /\ attempt' = attempt + 1
    /\ vpc' = IF attempt + 1 < Attempts THEN "loop" ELSE "write"

\* break
BreakLoop == vpc' = "write" /\ UNCHANGED attempt

\* One turn of the for loop: ledit runs. A non-zero exit code sets the
\* status Ledit Command Failed and breaks; an empty output sets its status
\* and goes to the next attempt; otherwise the output is parsed, and with
\* the retry condition the loop continues unless this is the last attempt,
\* which gives the parse error status when the status or the reason was not
\* found.
LeditAttempt ==
    /\ vpc = "loop"
    /\ attempt < Attempts
    /\ ledit_calls' = ledit_calls + 1
    /\ \E code \in {0, 1}, stdout \in LeditOutputs, err \in {<<>>, <<"e">>} :
          /\ code # 0 => stdout = <<>>
          /\ ledit_returncode' = code
          /\ ledit_stdout' = stdout
          /\ ledit_error' = err
          /\ LET unfound == [Parsed EXCEPT !.found_status = FALSE,
                                           !.found_reason = FALSE,
                                           !.found_recommendation = FALSE]
             IN  IF code # 0
                 THEN /\ SetParsed([unfound EXCEPT
                                       !.status = LeditCommandFailed,
                                       !.reason = CommandFailedReason(code, err)])
                      /\ BreakLoop
                 ELSE IF LeditOutput(stdout) = <<>>
                 THEN /\ SetParsed([unfound EXCEPT !.status = NoLeditOutput,
                                                   !.reason = EmptyOutputReason])
                      /\ NextAttempt
                 ELSE \E parsed \in {ParseFrom(stdout, 1, unfound)} :
                         IF RetryCondition(parsed)
                         THEN IF attempt < max_ledit_retries
                              THEN SetParsed(parsed) /\ NextAttempt
                              ELSE /\ IF ~parsed.found_status \/ ~parsed.found_reason
                                      THEN SetParsed([parsed EXCEPT
                                               !.status = LeditOutputParseError,
                                               !.reason = ParseErrorReason(stdout)])
                                      ELSE SetParsed(parsed)
                                   /\ BreakLoop
                         ELSE SetParsed(parsed) /\ BreakLoop
    /\ UNCHANGED written_reports
    /\ UNCHANGED <<hvars, dvars, svars, rvars, mvars, wvars, cvars>>

\* After the loop the report of the file is written: the status, the reason
\* and, when one was found that is not the default text, the recommendation.
WriteReport ==
    /\ vpc = "write"
    /\ written_reports' =
           Append(written_reports,
                  [status |-> status_from_ledit, reason |-> reason_from_ledit,
                   recommendation |->
                       IF found_recommendation
                          /\ recommendation_from_ledit # NoRecommendationProvided
                       THEN Some(recommendation_from_ledit) ELSE None])
    /\ vpc' = "returned"
    /\ UNCHANGED <<attempt, ledit_calls, ledit_returncode, ledit_stdout, ledit_error,
                   status_from_ledit, reason_from_ledit, recommendation_from_ledit,
                   found_status, found_reason, found_recommendation>>
    /\ UNCHANGED <<hvars, dvars, svars, rvars, mvars, wvars, cvars>>

ValidateInit ==
    /\ HarnessOff
    /\ DiagnosisOff
    /\ RunnerOff
    /\ ModelOff
    /\ WorkflowOff
    /\ ConvertOff
    /\ attempt = 0
    /\ ledit_calls = 0
    /\ ledit_returncode = 0
    /\ ledit_stdout = <<>>
    /\ ledit_error = <<>>
    /\ status_from_ledit = Unknown
    /\ reason_from_ledit = NoReasonProvided
    /\ recommendation_from_ledit = NoRecommendationProvided
    /\ found_status = FALSE
    /\ found_reason = FALSE
    /\ found_recommendation = FALSE
    /\ written_reports = <<>>
    /\ vpc = "loop"

ValidateNext ==
    \/ LeditAttempt
    \/ WriteReport

ValidateSpec == ValidateInit /\ [][ValidateNext]_vars

\* ledit is run once more after an earlier run for the file.
Retry == ledit_calls > 0 /\ ledit_calls' = ledit_calls + 1

====
